---- MODULE Spec2Model ----
(***************************************************************************)
(* Model of the core of AltiumXCEL2QueryBuilder: the rule classes and      *)
(* their RUL serialisation (models/rule_model.py), the two RUL parsers     *)
(* (RuleManager.from_rul_content, RuleGenerator.parse_rul_content) and the *)
(* pivot <-> clearance-rule conversion (models/excel_data.py).             *)
(*                                                                         *)
(* Representation of Python values                                         *)
(*  - str: a sequence of atoms.  An atom is either one character of        *)
(*    Special (white space, quotes, braces, '=', '|', ...) or a maximal    *)
(*    run of other characters ("Rule", "8.5mil", "Clearance_A_to_B").      *)
(*    Cat keeps that form under concatenation, so equal strings are equal  *)
(*    sequences.  The regular expressions of the parsers only distinguish  *)
(*    the characters of Special, the class \w and a few literals, all of   *)
(*    which are decided per atom.                                          *)
(*  - float: an integer number of tenths (85 is 8.5); FloatStr / float     *)
(*    convert to and from text.                                            *)
(*  - None, NaN, lists that may be None: tagged records (field t).         *)
(***************************************************************************)
EXTENDS Integers, Sequences, FiniteSets, TLC

\* ------------------------------------------------------------------------
\* Bounds of the model
\* ------------------------------------------------------------------------
MaxRules == 2      \* rules held by the RuleManager in Spec, rules handed over in SpecPivot
MaxBlocks == 2     \* "Rule { ... }" blocks per parsed text in SpecParse
MaxCell == 2       \* positive values of a pivot cell: 0.5, 1.0, ... in steps of 0.5
MaxHalves == 40    \* values handed to convert: 0, 0.5, ... in steps of 0.5

\* ------------------------------------------------------------------------
\* Text
\* ------------------------------------------------------------------------
WhiteSpace == {" ", "\n", "\r", "\t"}
Quotes == {"'", "\""}
Special == WhiteSpace \cup Quotes \cup {"{", "}", "=", "|", "(", ")", ";", "/", "\\"}

\* s + t, f"{s}{t}"
Cat(s, t) ==
  IF s = <<>> THEN t
  ELSE IF t = <<>> THEN s
  ELSE IF s[Len(s)] \notin Special /\ t[1] \notin Special
       THEN SubSeq(s, 1, Len(s) - 1) \o <<s[Len(s)] \o t[1]>> \o Tail(t)
       ELSE s \o t

RECURSIVE lstrip(_)
lstrip(s) == IF s # <<>> /\ s[1] \in WhiteSpace THEN lstrip(Tail(s)) ELSE s

RECURSIVE rstrip(_)
rstrip(s) ==
  IF s # <<>> /\ s[Len(s)] \in WhiteSpace
  THEN rstrip(SubSeq(s, 1, Len(s) - 1)) ELSE s

\* str.strip()
strip(s) == rstrip(lstrip(s))

\* sep.join(parts)
RECURSIVE join(_, _)
join(sep, parts) ==
  IF parts = <<>> THEN <<>>
  ELSE IF Len(parts) = 1 THEN parts[1]
  ELSE Cat(Cat(parts[1], sep), join(sep, Tail(parts)))

\* code points of the atoms that string comparison has to look into
CodePoints ==
   "SELECTION" :> <<83, 69, 76, 69, 67, 84, 73, 79, 78>> @@
   "LAYER" :> <<76, 65, 89, 69, 82>> @@
   "LOCKED" :> <<76, 79, 67, 75, 69, 68>> @@
   "POLYGONOUTLINE" :> <<80, 79, 76, 89, 71, 79, 78, 79, 85, 84, 76, 73, 78, 69>> @@
   "USERROUTED" :> <<85, 83, 69, 82, 82, 79, 85, 84, 69, 68>> @@
   "KEEPOUT" :> <<75, 69, 69, 80, 79, 85, 84>> @@
   "UNIONINDEX" :> <<85, 78, 73, 79, 78, 73, 78, 68, 69, 88>> @@
   "RULEKIND" :> <<82, 85, 76, 69, 75, 73, 78, 68>> @@
   "NETSCOPE" :> <<78, 69, 84, 83, 67, 79, 80, 69>> @@
   "LAYERKIND" :> <<76, 65, 89, 69, 82, 75, 73, 78, 68>> @@
   "SCOPE1EXPRESSION" :> <<83, 67, 79, 80, 69, 49, 69, 88, 80, 82, 69, 83, 83, 73, 79, 78>> @@
   "SCOPE2EXPRESSION" :> <<83, 67, 79, 80, 69, 50, 69, 88, 80, 82, 69, 83, 83, 73, 79, 78>> @@
   "NAME" :> <<78, 65, 77, 69>> @@
   "ENABLED" :> <<69, 78, 65, 66, 76, 69, 68>> @@
   "PRIORITY" :> <<80, 82, 73, 79, 82, 73, 84, 89>> @@
   "COMMENT" :> <<67, 79, 77, 77, 69, 78, 84>> @@
   "UNIQUEID" :> <<85, 78, 73, 81, 85, 69, 73, 68>> @@
   "DEFINEDBYLOGICALDOCUMENT" :> <<68, 69, 70, 73, 78, 69, 68, 66, 89, 76, 79, 71, 73, 67, 65, 76, 68, 79, 67, 85, 77, 69, 78, 84>> @@
   "GAP" :> <<71, 65, 80>> @@
   "GENERICCLEARANCE" :> <<71, 69, 78, 69, 82, 73, 67, 67, 76, 69, 65, 82, 65, 78, 67, 69>> @@
   "IGNOREPADTOPADCLEARANCEINFOOTPRINT" :> <<73, 71, 78, 79, 82, 69, 80, 65, 68, 84, 79, 80, 65, 68, 67, 76, 69, 65, 82, 65, 78, 67, 69, 73, 78, 70, 79, 79, 84, 80, 82, 73, 78, 84>> @@
   "OBJECTCLEARANCES" :> <<79, 66, 74, 69, 67, 84, 67, 76, 69, 65, 82, 65, 78, 67, 69, 83>> @@
   "ALLOWED" :> <<65, 76, 76, 79, 87, 69, 68>> @@
   "CHECKBADCONNECTIONS" :> <<67, 72, 69, 67, 75, 66, 65, 68, 67, 79, 78, 78, 69, 67, 84, 73, 79, 78, 83>> @@
   "=" :> <<61>> @@ "|" :> <<124>> @@ " " :> <<32>> @@ "'" :> <<39>> @@
   "(" :> <<40>> @@ ")" :> <<41>> @@ "/" :> <<47>> @@ ";" :> <<59>> @@
   "A" :> <<65>> @@
   "B" :> <<66>> @@
   "C" :> <<67>> @@
   "Power" :> <<80, 111, 119, 101, 114>> @@
   "Ground" :> <<71, 114, 111, 117, 110, 100>>

\* c is a proper prefix of d
IsProperPrefix(c, d) == Len(c) < Len(d) /\ SubSeq(d, 1, Len(c)) = c

\* first index at which two code sequences differ, neither being a prefix
FirstDiff(c, d) ==
  CHOOSE i \in 1..Len(c) :
    /\ i <= Len(d)
    /\ c[i] # d[i]
    /\ \A j \in 1..(i - 1) : c[j] = d[j]

\* Python's  s < t  on str (lexicographic by code point).  When the first
\* atom of one side is a proper prefix of the other side's, the shorter side
\* goes on with its next atom, which is a Special character (runs are
\* maximal) and so differs from the run character it is compared with.
RECURSIVE StrLess(_, _)
StrLess(s, t) ==
  IF t = <<>> THEN FALSE
  ELSE IF s = <<>> THEN TRUE
  ELSE IF s[1] = t[1] THEN StrLess(Tail(s), Tail(t))
  ELSE LET c == CodePoints[s[1]]
           d == CodePoints[t[1]]
       IN IF IsProperPrefix(c, d)
          THEN Len(s) = 1 \/ CodePoints[s[2]][1] < d[Len(c) + 1]
          ELSE IF IsProperPrefix(d, c)
          THEN Len(t) > 1 /\ c[Len(d) + 1] < CodePoints[t[2]][1]
          ELSE LET i == FirstDiff(c, d) IN c[i] < d[i]

\* list.sort() / sorted() on a list of str
RECURSIVE insert_sorted(_, _)
insert_sorted(x, sorted) ==
  IF sorted = <<>> THEN <<x>>
  ELSE IF StrLess(x, sorted[1]) THEN <<x>> \o sorted
  ELSE <<sorted[1]>> \o insert_sorted(x, Tail(sorted))

RECURSIVE sort(_)
sort(l) == IF l = <<>> THEN <<>> ELSE insert_sorted(l[Len(l)], sort(SubSeq(l, 1, Len(l) - 1)))

\* f"{value}" of a float held in tenths: 85 -> "8.5", 100 -> "10.0"
FloatStr(v) ==
  LET a == IF v < 0 THEN 0 - v ELSE v
  IN (IF v < 0 THEN "-" ELSE "") \o ToString(a \div 10) \o "." \o ToString(a % 10)

\* ------------------------------------------------------------------------
\* models/rule_model.py: UnitType, RuleType, RuleScope
\* ------------------------------------------------------------------------
MIL == "mil"
MM == "mm"
INCH == "inch"
UnitType == {MIL, MM, INCH}

CLEARANCE == "Clearance"
SHORT_CIRCUIT == "ShortCircuit"
UNROUTED_NET == "UnroutedNet"

RuleScope(scope_type, items) == [scope_type |-> scope_type, items |-> items]
ScopeAll == RuleScope("All", <<>>)
NetClass(n) == RuleScope("NetClass", <<n>>)

InNetClassQuery(item) == Cat(Cat(<<"InNetClass", "(", "'">>, item), <<"'", ")">>)

\* to_query_string that writes a class list in the InNetClasses('a;b') form
to_query_string_in_net_classes(scope) ==
  IF scope.scope_type = "All" THEN <<"All">>
  ELSE IF scope.scope_type = "NetClass"
       THEN IF scope.items # <<>> THEN InNetClassQuery(scope.items[1]) ELSE <<"All">>
  ELSE IF scope.scope_type = "NetClasses"
       THEN Cat(Cat(<<"InNetClasses", "(", "'">>, join(<<";">>, scope.items)), <<"'", ")">>)
  ELSE IF scope.scope_type = "Custom"
       THEN IF scope.items # <<>> THEN scope.items[1] ELSE <<"All">>
  ELSE <<"All">>

to_query_string(scope) ==
  IF scope.scope_type = "All" THEN <<"All">>
  ELSE IF scope.scope_type = "NetClass"
       THEN IF scope.items # <<>> THEN InNetClassQuery(scope.items[1]) ELSE <<"All">>
  ELSE IF scope.scope_type = "NetClasses"
       THEN join(<<" ", "OR", " ">>,
                 [i \in 1..Len(scope.items) |-> InNetClassQuery(scope.items[i])])
  ELSE IF scope.scope_type = "Custom"
       THEN IF scope.items # <<>> THEN scope.items[1] ELSE <<"All">>
  ELSE <<"All">>

\* ------------------------------------------------------------------------
\* models/rule_model.py: the rule classes and their RUL line
\* ------------------------------------------------------------------------
ClearanceRule(name, enabled, comment, priority, min_clearance, unit, source_scope, target_scope) ==
  [rule_type |-> CLEARANCE, name |-> name, enabled |-> enabled,
   comment |-> comment, priority |-> priority,
   min_clearance |-> min_clearance, unit |-> unit,
   source_scope |-> source_scope, target_scope |-> target_scope]

ShortCircuitRule(name, enabled, comment, priority, scope) ==
  [rule_type |-> SHORT_CIRCUIT, name |-> name, enabled |-> enabled,
   comment |-> comment, priority |-> priority, scope |-> scope]

UnRoutedNetRule(name, enabled, comment, priority, scope) ==
  [rule_type |-> UNROUTED_NET, name |-> name, enabled |-> enabled,
   comment |-> comment, priority |-> priority, scope |-> scope]

Prop(k, v) == [key |-> k, value |-> v]

\* uid stands for uuid.uuid4().hex[:8].upper(), drawn anew by every call
get_base_rul_properties(rule, uid) ==
  << Prop("SELECTION", <<"FALSE">>),
     Prop("LAYER", <<"UNKNOWN">>),
     Prop("LOCKED", <<"FALSE">>),
     Prop("POLYGONOUTLINE", <<"FALSE">>),
     Prop("USERROUTED", <<"TRUE">>),
     Prop("KEEPOUT", <<"FALSE">>),
     Prop("UNIONINDEX", <<"0">>),
     Prop("RULEKIND", <<rule.rule_type>>),
     Prop("NETSCOPE", <<"DifferentNets">>),
     Prop("LAYERKIND", <<"SameLayer">>),
     Prop("SCOPE1EXPRESSION", <<"All">>),
     Prop("SCOPE2EXPRESSION", <<"All">>),
     Prop("NAME", rule.name),
     Prop("ENABLED", IF rule.enabled THEN <<"TRUE">> ELSE <<"FALSE">>),
     Prop("PRIORITY", <<ToString(rule.priority)>>),
     Prop("COMMENT", rule.comment),
     Prop("UNIQUEID", <<uid>>),
     Prop("DEFINEDBYLOGICALDOCUMENT", <<"FALSE">>) >>

\* dict.update: an existing key keeps its place and takes the new value, a
\* new key is appended
RECURSIVE dict_update(_, _)
dict_update(properties, updates) ==
  IF updates = <<>> THEN properties
  ELSE LET u == updates[1]
           has == \E i \in 1..Len(properties) : properties[i].key = u.key
           next == IF has
                   THEN [i \in 1..Len(properties) |->
                           IF properties[i].key = u.key THEN u ELSE properties[i]]
                   ELSE Append(properties, u)
       IN dict_update(next, Tail(updates))

\* _build_rul_line without line_parts.sort()
build_rul_line_unsorted(properties) ==
  LET kept == SelectSeq(properties, LAMBDA p : p.value # <<>>)
      line_parts == [i \in 1..Len(kept) |-> Cat(<<kept[i].key, "=">>, kept[i].value)]
  IN join(<<"|">>, line_parts)

\* _build_rul_line without the filter on empty values
build_rul_line_unfiltered(properties) ==
  LET line_parts ==
        [i \in 1..Len(properties) |-> Cat(<<properties[i].key, "=">>, properties[i].value)]
  IN join(<<"|">>, sort(line_parts))

build_rul_line(properties) ==
  LET kept == SelectSeq(properties, LAMBDA p : p.value # <<>>)
      line_parts == [i \in 1..Len(kept) |-> Cat(<<kept[i].key, "=">>, kept[i].value)]
  IN join(<<"|">>, sort(line_parts))

ClearanceRule_to_rul_format(rule, uid) ==
  LET gap == <<FloatStr(rule.min_clearance) \o rule.unit>>
  IN build_rul_line(dict_update(get_base_rul_properties(rule, uid),
       << Prop("SCOPE1EXPRESSION", to_query_string(rule.source_scope)),
          Prop("SCOPE2EXPRESSION", to_query_string(rule.target_scope)),
          Prop("GAP", gap),
          Prop("GENERICCLEARANCE", gap),
          Prop("IGNOREPADTOPADCLEARANCEINFOOTPRINT", <<"FALSE">>),
          Prop("OBJECTCLEARANCES", <<" ">>) >>))

\* ShortCircuitRule.to_rul_format that leaves SCOPE2EXPRESSION at its base value
ShortCircuitRule_to_rul_format_scope1(rule, uid) ==
  build_rul_line(dict_update(get_base_rul_properties(rule, uid),
    << Prop("SCOPE1EXPRESSION", to_query_string(rule.scope)),
       Prop("ALLOWED", <<"FALSE">>) >>))

ShortCircuitRule_to_rul_format(rule, uid) ==
  build_rul_line(dict_update(get_base_rul_properties(rule, uid),
    << Prop("SCOPE1EXPRESSION", to_query_string(rule.scope)),
       Prop("SCOPE2EXPRESSION", to_query_string(rule.scope)),
       Prop("ALLOWED", <<"FALSE">>) >>))

\* UnRoutedNetRule.to_rul_format that keeps the ALLOWED of the short-circuit kind
UnRoutedNetRule_to_rul_format_allowed(rule, uid) ==
  build_rul_line(dict_update(get_base_rul_properties(rule, uid),
    << Prop("SCOPE1EXPRESSION", to_query_string(rule.scope)),
       Prop("SCOPE2EXPRESSION", <<"All">>),
       Prop("ALLOWED", <<"FALSE">>),
       Prop("CHECKBADCONNECTIONS", <<"TRUE">>) >>))

UnRoutedNetRule_to_rul_format(rule, uid) ==
  build_rul_line(dict_update(get_base_rul_properties(rule, uid),
    << Prop("SCOPE1EXPRESSION", to_query_string(rule.scope)),
       Prop("SCOPE2EXPRESSION", <<"All">>),
       Prop("CHECKBADCONNECTIONS", <<"TRUE">>) >>))

\* rule.to_rul_format(), dispatched on the class of the rule
to_rul_format(rule, uid) ==
  IF rule.rule_type = CLEARANCE THEN ClearanceRule_to_rul_format(rule, uid)
  ELSE IF rule.rule_type = SHORT_CIRCUIT THEN ShortCircuitRule_to_rul_format(rule, uid)
  ELSE UnRoutedNetRule_to_rul_format(rule, uid)

\* RuleManager.to_rul_format; uids[i] is the id drawn while rule i is written
RuleManager_to_rul_format(rule_list, uids) ==
  join(<<"\r", "\n">>, [i \in 1..Len(rule_list) |-> to_rul_format(rule_list[i], uids[i])])

\* ------------------------------------------------------------------------
\* Python conversions used by the parsers
\* ------------------------------------------------------------------------
None == [t |-> "None"]
\* a conversion either returns Ok(value) or raises ValueError
ValueError == [t |-> "ValueError"]
Ok(v) == [t |-> "Ok", v |-> v]

\* case variants that occur in the texts of the model; every other atom of
\* the model has a single spelling
LowerCase ==
   "All" :> "all" @@ "ALL" :> "all" @@ "TRUE" :> "true" @@ "True" :> "true" @@
   "FALSE" :> "false" @@ "False" :> "false" @@ "MM" :> "mm" @@ "Mil" :> "mil" @@
   "MIL" :> "mil" @@ "Inch" :> "inch" @@ "INCH" :> "inch" @@
   "aLl" :> "all" @@ "Mm" :> "mm" @@ "Mils" :> "mils" @@ "MILS" :> "mils" @@
   "Millimeter" :> "millimeter" @@ "MILLIMETERS" :> "millimeters" @@
   "Inches" :> "inches" @@ "IN" :> "in" @@ "In" :> "in" @@ "CM" :> "cm"
UpperCase ==
   "all" :> "ALL" @@ "All" :> "ALL" @@ "true" :> "TRUE" @@ "True" :> "TRUE" @@
   "false" :> "FALSE" @@ "False" :> "FALSE"

\* str.lower(), str.upper()
lower(s) == [i \in 1..Len(s) |-> IF s[i] \in DOMAIN LowerCase THEN LowerCase[s[i]] ELSE s[i]]
upper(s) == [i \in 1..Len(s) |-> IF s[i] \in DOMAIN UpperCase THEN UpperCase[s[i]] ELSE s[i]]

\* the integers and floats (in tenths) whose literals the model can read
IntDomain == (0 - 9)..99
FloatDomain == (0 - 10)..((10 * MaxCell) + 100)

\* \w+ on an atom: a run atom made of [A-Za-z0-9_] only.  The run atoms of
\* the model with a character outside \w are the float literals.
NonWordRuns ==
  {FloatStr(v) : v \in FloatDomain} \cup {FloatStr(v) \o u : v \in FloatDomain, u \in UnitType}
    \cup {"+3.3V"}
IsWord(a) == a \notin Special /\ a \notin NonWordRuns

\* int(s)
int(s) ==
  IF Len(s) = 1 /\ \E n \in IntDomain : ToString(n) = s[1]
  THEN Ok(CHOOSE n \in IntDomain : ToString(n) = s[1])
  ELSE ValueError

\* str.isdigit()
isdigit(s) == Len(s) = 1 /\ \E n \in IntDomain : n >= 0 /\ ToString(n) = s[1]

\* float(s), in tenths.  "8.5" and "10" are read, "abc" and "" are not.
float(s) ==
  IF Len(s) = 1 /\ \E v \in FloatDomain : FloatStr(v) = s[1]
  THEN Ok(CHOOSE v \in FloatDomain : FloatStr(v) = s[1])
  ELSE IF int(s) # ValueError THEN Ok(10 * int(s).v)
  ELSE ValueError

\* UnitType.from_string that falls back to mil for an unknown unit
UnitType_from_string_default(unit_str) ==
  LET u == strip(lower(unit_str))
  IN IF u \in {<<"mil">>, <<"mils">>} THEN Ok(MIL)
     ELSE IF u \in {<<"mm">>, <<"millimeter">>, <<"millimeters">>} THEN Ok(MM)
     ELSE IF u \in {<<"inch">>, <<"inches">>, <<"in">>} THEN Ok(INCH)
     ELSE Ok(MIL)

UnitType_from_string(unit_str) ==
  LET u == strip(lower(unit_str))
  IN IF u \in {<<"mil">>, <<"mils">>} THEN Ok(MIL)
     ELSE IF u \in {<<"mm">>, <<"millimeter">>, <<"millimeters">>} THEN Ok(MM)
     ELSE IF u \in {<<"inch">>, <<"inches">>, <<"in">>} THEN Ok(INCH)
     ELSE ValueError

\* ------------------------------------------------------------------------
\* Regular expressions of the parsers, matched on atoms
\* ------------------------------------------------------------------------
Min(S) == CHOOSE x \in S : \A y \in S : x <= y

\* [^stop]* from index i: the first index >= i whose atom is in stop, or the
\* index after the text
RECURSIVE skip_until(_, _, _)
skip_until(text, stop, i) ==
  IF i <= Len(text) /\ text[i] \notin stop THEN skip_until(text, stop, i + 1) ELSE i

\* the same for a long stretch (the body of a block)
find_first(text, stop, i) ==
  IF i > Len(text) THEN i
  ELSE Min({j \in i..(Len(text) + 1) : j = Len(text) + 1 \/ text[j] \in stop})

\* \s* from index i: the first index >= i that is not white space
RECURSIVE skip_space(_, _)
skip_space(text, i) ==
  IF i <= Len(text) /\ text[i] \in WhiteSpace THEN skip_space(text, i + 1) ELSE i

\* ['"]? at index i
skip_quote(text, i) == IF i <= Len(text) /\ text[i] \in Quotes THEN i + 1 ELSE i

\* r'Rule\s*{[^}]*}' at index i: index of the closing brace, 0 if no match
rule_block_end(text, i) ==
  IF text[i] # "Rule" THEN 0
  ELSE LET j == skip_space(text, i + 1)
       IN IF j <= Len(text) /\ text[j] = "{"
          THEN LET e == find_first(text, {"}"}, j + 1)
               IN IF e <= Len(text) THEN e ELSE 0
          ELSE 0

\* re.findall(r'Rule\s*{[^}]*}', rul_content, re.DOTALL)
\* (leftmost match from index i on, then on from the end of that match)
RECURSIVE findall_rule_blocks(_, _)
findall_rule_blocks(text, i) ==
  LET starts == {j \in i..Len(text) : rule_block_end(text, j) # 0}
  IN IF starts = {} THEN <<>>
     ELSE LET b == Min(starts)
              e == rule_block_end(text, b)
          IN <<SubSeq(text, b, e)>> \o findall_rule_blocks(text, e + 1)

RuleManager_extract_rule_blocks(rul_content) == findall_rule_blocks(rul_content, 1)
RuleGenerator_extract_rule_blocks(rul_content) == findall_rule_blocks(rul_content, 1)

NoMatch == [matched |-> FALSE]

\* r'\s+KEY\s*=\s*[\'"]?([^\'"\n}]*)[\'"]?\s*' matched at index i, where KEY
\* is (\w+) when name = "" and re.escape(name) otherwise.  Everything after
\* '=' is optional and greedy, so it never backtracks; `next` is the index
\* after the match (the trailing \s* included).
property_match(text, name, i) ==
  IF text[i] \notin WhiteSpace THEN NoMatch
  ELSE LET k == skip_space(text, i)
           e == skip_space(text, k + 1)
       IN IF /\ k <= Len(text)
             /\ IF name = "" THEN IsWord(text[k]) ELSE text[k] = name
             /\ e <= Len(text)
             /\ text[e] = "="
          THEN LET v1 == skip_quote(text, skip_space(text, e + 1))
                   v2 == skip_until(text, Quotes \cup {"\n", "}"}, v1)
               IN [matched |-> TRUE, key |-> text[k],
                   value |-> SubSeq(text, v1, v2 - 1),
                   next |-> skip_space(text, skip_quote(text, v2))]
          ELSE NoMatch

\* RuleManager._extract_rule_properties: re.finditer over the block, later
\* occurrences of a key overwrite earlier ones
RECURSIVE finditer_properties(_, _, _)
finditer_properties(block, i, properties) ==
  LET starts == {j \in i..Len(block) : property_match(block, "", j).matched}
  IN IF starts = {} THEN properties
     ELSE LET m == property_match(block, "", Min(starts))
          IN finditer_properties(block, m.next,
               dict_update(properties, <<Prop(m.key, strip(m.value))>>))

RuleManager_extract_rule_properties(block) == finditer_properties(block, 1, <<>>)

\* dict.get(key, default)
dict_get(properties, key, default) ==
  IF \E i \in 1..Len(properties) : properties[i].key = key
  THEN properties[CHOOSE i \in 1..Len(properties) : properties[i].key = key].value
  ELSE default

\* RuleGenerator._extract_property: re.search, the leftmost match or ""
RuleGenerator_extract_property(block, property_name) ==
  LET starts == {j \in 1..Len(block) : property_match(block, property_name, j).matched}
  IN IF starts = {} THEN <<>>
     ELSE strip(property_match(block, property_name, Min(starts)).value)

\* r'InNetClass\([\'"]([^\'"]*)[\'"]' (or InNetClasses) matched at index i:
\* group(1) and the index after the match
net_class_match(text, word, i) ==
  IF /\ i + 2 <= Len(text)
     /\ text[i] = word
     /\ text[i + 1] = "("
     /\ text[i + 2] \in Quotes
  THEN LET e == skip_until(text, Quotes, i + 3)
       IN IF e <= Len(text)
          THEN [matched |-> TRUE, group |-> SubSeq(text, i + 3, e - 1), next |-> e + 1]
          ELSE NoMatch
  ELSE NoMatch

\* r'[\'"]([^\'"]*)[\'"]' matched at index i
quoted_match(text, i) ==
  IF i <= Len(text) /\ text[i] \in Quotes
  THEN LET e == skip_until(text, Quotes, i + 1)
       IN IF e <= Len(text)
          THEN [matched |-> TRUE, group |-> SubSeq(text, i + 1, e - 1), next |-> e + 1]
          ELSE NoMatch
  ELSE NoMatch

\* re.search(r'InNetClass\(...', s): the leftmost match
search_net_class(text) ==
  LET starts == {j \in 1..Len(text) : net_class_match(text, "InNetClass", j).matched}
  IN IF starts = {} THEN NoMatch ELSE net_class_match(text, "InNetClass", Min(starts))

\* re.findall(r'InNetClass\(...', s): group(1) of every match
RECURSIVE findall_net_class(_, _)
findall_net_class(text, i) ==
  LET starts == {j \in i..Len(text) : net_class_match(text, "InNetClass", j).matched}
  IN IF starts = {} THEN <<>>
     ELSE LET m == net_class_match(text, "InNetClass", Min(starts))
          IN <<m.group>> \o findall_net_class(text, m.next)

\* re.search(r'[\'"]([^\'"]*)[\'"]', s)
search_quoted(text) ==
  LET starts == {j \in 1..Len(text) : quoted_match(text, j).matched}
  IN IF starts = {} THEN NoMatch ELSE quoted_match(text, Min(starts))

\* ' OR ' in s
contains_OR(text) ==
  \E i \in 1..(Len(text) - 2) : text[i] = " " /\ text[i + 1] = "OR" /\ text[i + 2] = " "

\* re.match(r'^[a-zA-Z0-9_\-]+$', s); the names of the model have no '-'
is_identifier(s) == Len(s) = 1 /\ IsWord(s[1])

\* str.split(';')
RECURSIVE split_semicolon(_)
split_semicolon(s) ==
  LET e == skip_until(s, {";"}, 1)
  IN IF e > Len(s) THEN <<s>>
     ELSE <<SubSeq(s, 1, e - 1)>> \o split_semicolon(SubSeq(s, e + 1, Len(s)))

\* RuleManager._parse_scope that knows the spelling "All" only
RuleManager_parse_scope_exact(scope_str) ==
  IF scope_str = <<>> \/ scope_str = <<"All">> THEN ScopeAll
  ELSE LET m == search_net_class(scope_str)
           net_class_name == IF m.matched THEN strip(m.group) ELSE <<>>
       IN IF m.matched /\ net_class_name # <<>> /\ is_identifier(net_class_name)
          THEN RuleScope("NetClass", <<net_class_name>>)
          ELSE IF contains_OR(scope_str) /\ findall_net_class(scope_str, 1) # <<>>
          THEN RuleScope("NetClasses", findall_net_class(scope_str, 1))
          ELSE LET q == search_quoted(scope_str)
               IN IF q.matched THEN RuleScope("Custom", <<q.group>>)
                  ELSE RuleScope("Custom", <<scope_str>>)

RuleManager_parse_scope(scope_str) ==
  IF scope_str = <<>> \/ lower(strip(scope_str)) = <<"all">> THEN ScopeAll
  ELSE LET m == search_net_class(scope_str)
           net_class_name == IF m.matched THEN strip(m.group) ELSE <<>>
       IN IF m.matched /\ net_class_name # <<>> /\ is_identifier(net_class_name)
          THEN RuleScope("NetClass", <<net_class_name>>)
          ELSE IF contains_OR(scope_str) /\ findall_net_class(scope_str, 1) # <<>>
          THEN RuleScope("NetClasses", findall_net_class(scope_str, 1))
          ELSE LET q == search_quoted(scope_str)
               IN IF q.matched THEN RuleScope("Custom", <<q.group>>)
                  ELSE RuleScope("Custom", <<scope_str>>)

RuleGenerator_parse_scope(scope_str) ==
  IF scope_str = <<>> \/ scope_str = <<"All">> THEN ScopeAll
  ELSE LET m == net_class_match(scope_str, "InNetClass", 1)
           ms == net_class_match(scope_str, "InNetClasses", 1)
           q == quoted_match(scope_str, 1)
       IN IF m.matched THEN RuleScope("NetClass", <<m.group>>)
          ELSE IF ms.matched THEN RuleScope("NetClasses", split_semicolon(ms.group))
          ELSE IF q.matched THEN RuleScope("Custom", split_semicolon(q.group))
          ELSE ScopeAll

\* ------------------------------------------------------------------------
\* RuleManager: block -> rule (None when the block is skipped)
\* ------------------------------------------------------------------------
RuleManager_create_clearance_rule(properties) ==
  LET priority == int(dict_get(properties, "Priority", <<"1">>))
      clearance == float(dict_get(properties, "MinimumClearance", <<"10.0">>))
      unit == UnitType_from_string(dict_get(properties, "MinimumClearanceType", <<"mil">>))
  IN IF priority = ValueError THEN None
     ELSE ClearanceRule(
            dict_get(properties, "Name", <<>>),
            upper(dict_get(properties, "Enabled", <<"TRUE">>)) = <<"TRUE">>,
            dict_get(properties, "Comment", <<>>),
            priority.v,
            IF clearance = ValueError THEN 100 ELSE clearance.v,
            IF unit = ValueError THEN MIL ELSE unit.v,
            RuleManager_parse_scope(dict_get(properties, "SourceScope", <<>>)),
            RuleManager_parse_scope(dict_get(properties, "TargetScope", <<>>)))

RuleManager_create_short_circuit_rule(properties) ==
  LET priority == int(dict_get(properties, "Priority", <<"1">>))
  IN IF priority = ValueError THEN None
     ELSE ShortCircuitRule(
            dict_get(properties, "Name", <<>>),
            upper(dict_get(properties, "Enabled", <<"TRUE">>)) = <<"TRUE">>,
            dict_get(properties, "Comment", <<>>),
            priority.v,
            RuleManager_parse_scope(dict_get(properties, "Scope", <<>>)))

RuleManager_create_unrouted_net_rule(properties) ==
  LET priority == int(dict_get(properties, "Priority", <<"1">>))
  IN IF priority = ValueError THEN None
     ELSE UnRoutedNetRule(
            dict_get(properties, "Name", <<>>),
            upper(dict_get(properties, "Enabled", <<"TRUE">>)) = <<"TRUE">>,
            dict_get(properties, "Comment", <<>>),
            priority.v,
            RuleManager_parse_scope(dict_get(properties, "Scope", <<>>)))

RuleManager_parse_rule_block(block) ==
  LET properties == RuleManager_extract_rule_properties(block)
      rule_kind == dict_get(properties, "RuleKind", <<>>)
  IN IF dict_get(properties, "Name", <<>>) = <<>> \/ rule_kind = <<>> THEN None
     ELSE IF rule_kind = <<CLEARANCE>> THEN RuleManager_create_clearance_rule(properties)
     ELSE IF rule_kind = <<SHORT_CIRCUIT>> THEN RuleManager_create_short_circuit_rule(properties)
     ELSE IF rule_kind = <<UNROUTED_NET>> THEN RuleManager_create_unrouted_net_rule(properties)
     ELSE None

\* ------------------------------------------------------------------------
\* RuleGenerator: block -> rule (None when the block is skipped)
\* ------------------------------------------------------------------------
RuleGenerator_parse_clearance_rule(block, name, enabled, comment, priority) ==
  LET min_clearance_str == RuleGenerator_extract_property(block, "MinimumClearance")
      min_clearance_type == RuleGenerator_extract_property(block, "MinimumClearanceType")
      source_scope_str == RuleGenerator_extract_property(block, "SourceScope")
      target_scope_str == RuleGenerator_extract_property(block, "TargetScope")
      min_clearance == float(min_clearance_str)
      unit == IF min_clearance_type # <<>>
              THEN UnitType_from_string(min_clearance_type) ELSE Ok(MIL)
  IN IF min_clearance_str = <<>> THEN None
     ELSE ClearanceRule(name, enabled, comment, priority,
            IF min_clearance = ValueError THEN 100 ELSE min_clearance.v,
            IF unit = ValueError THEN MIL ELSE unit.v,
            IF source_scope_str # <<>>
            THEN RuleGenerator_parse_scope(source_scope_str) ELSE ScopeAll,
            IF target_scope_str # <<>>
            THEN RuleGenerator_parse_scope(target_scope_str) ELSE ScopeAll)

RuleGenerator_parse_short_circuit_rule(block, name, enabled, comment, priority) ==
  LET scope_str == RuleGenerator_extract_property(block, "Scope")
  IN ShortCircuitRule(name, enabled, comment, priority,
       IF scope_str # <<>> THEN RuleGenerator_parse_scope(scope_str) ELSE ScopeAll)

RuleGenerator_parse_unrouted_net_rule(block, name, enabled, comment, priority) ==
  LET scope_str == RuleGenerator_extract_property(block, "Scope")
  IN UnRoutedNetRule(name, enabled, comment, priority,
       IF scope_str # <<>> THEN RuleGenerator_parse_scope(scope_str) ELSE ScopeAll)

RuleGenerator_parse_rule_block(block) ==
  LET name == RuleGenerator_extract_property(block, "Name")
      enabled_str == RuleGenerator_extract_property(block, "Enabled")
      enabled == IF enabled_str # <<>> THEN lower(enabled_str) = <<"true">> ELSE TRUE
      comment == RuleGenerator_extract_property(block, "Comment")
      priority_str == RuleGenerator_extract_property(block, "Priority")
      priority == IF priority_str # <<>> /\ isdigit(priority_str) THEN int(priority_str).v ELSE 1
      rule_kind == RuleGenerator_extract_property(block, "RuleKind")
  IN IF name = <<>> \/ rule_kind = <<>> THEN None
     ELSE IF rule_kind = <<CLEARANCE>>
          THEN RuleGenerator_parse_clearance_rule(block, name, enabled, comment, priority)
     ELSE IF rule_kind = <<SHORT_CIRCUIT>>
          THEN RuleGenerator_parse_short_circuit_rule(block, name, enabled, comment, priority)
     ELSE IF rule_kind = <<UNROUTED_NET>>
          THEN RuleGenerator_parse_unrouted_net_rule(block, name, enabled, comment, priority)
     ELSE None

\* the rules added by the loop `for block in rule_blocks`, in block order
RuleManager_parsed_rules(rule_blocks) ==
  SelectSeq([i \in 1..Len(rule_blocks) |-> RuleManager_parse_rule_block(rule_blocks[i])],
            LAMBDA rule : rule # None)

RuleGenerator_parsed_rules(rule_blocks) ==
  SelectSeq([i \in 1..Len(rule_blocks) |-> RuleGenerator_parse_rule_block(rule_blocks[i])],
            LAMBDA rule : rule # None)

\* ------------------------------------------------------------------------
\* State
\* ------------------------------------------------------------------------
VARIABLES
  rules,   \* RuleManager.rules of the RuleGenerator's rule_manager
  pivot,   \* the ExcelPivotData object
  op       \* the last call: its name, argument, return value and the
           \* state it started from

vars == <<rules, pivot, op>>

Call(name, arg, ret, pre) == [name |-> name, arg |-> arg, ret |-> ret, pre |-> pre]

\* ExcelPivotData.__init__
ExcelPivotData(rule_type) ==
  [rule_type |-> rule_type, pivot_df |-> None, column_index |-> None,
   row_index |-> None, values |-> None, unit |-> MIL]

\* the pivot object the application starts with
NewPivot == ExcelPivotData(CLEARANCE)

\* ------------------------------------------------------------------------
\* Inputs
\* ------------------------------------------------------------------------
\* the values uuid.uuid4().hex[:8].upper() can take
Ids == {"0A1B2C3D", "9F8E7D6C"}

X == <<"X">>
Y == <<"Y">>

\* rules handed to add_rule
RuleDomain ==
  { ClearanceRule(<<"C1">>, TRUE, <<>>, 1, 85, MIL, NetClass(<<"Power">>), NetClass(<<"Ground">>)),
    ClearanceRule(X, FALSE, <<"tight", " ", "gap">>, 2, 100, MM, ScopeAll, NetClass(<<"A">>)),
    ShortCircuitRule(X, TRUE, <<>>, 1, NetClass(<<"A">>)),
    UnRoutedNetRule(Y, TRUE, <<>>, 3, ScopeAll) }

RuleNames == {X, Y, <<"C1">>}

\* A block of the legacy format read by both parsers,
\*    Rule {
\*     Key = 'Value'
\*    }
\* with one property per line, each line either bare or closed by ';'.
\* A field of a block is absent (<<>>) or present with a value (<<value>>).
EntryField(key, field) == IF field = <<>> THEN <<>> ELSE <<Prop(key, field[1])>>

EntryFields ==
  { f \in [name : {<<>>, <<X>>, <<Y>>},
           kind : {<<>>, <<<<CLEARANCE>>>>, <<<<SHORT_CIRCUIT>>>>, <<<<UNROUTED_NET>>>>,
                   <<<<"Foo">>>>},
           clearance : {<<>>, <<<<"8.5">>>>, <<<<"abc">>>>},
           unit : {<<>>, <<<<"mm">>>>},
           priority : {<<>>, <<<<"2">>>>, <<<<"abc">>>>}] :
      \/ f.kind = <<<<CLEARANCE>>>> /\ f.name = <<X>> /\ f.priority = <<>>
      \/ f.kind = <<<<CLEARANCE>>>> /\ f.name = <<X>> /\ f.clearance = <<<<"8.5">>>>
           /\ f.unit = <<>>
      \/ f.kind = <<<<CLEARANCE>>>> /\ f.name = <<>> /\ f.clearance = <<<<"8.5">>>>
           /\ f.unit = <<>> /\ f.priority = <<>>
      \/ f.kind # <<<<CLEARANCE>>>> /\ f.name = <<Y>> /\ f.clearance = <<>>
           /\ f.unit = <<>> /\ f.priority = <<>> }

EntryStyles == {"bare", "semicolon"}

Entries == [style : EntryStyles, fields : EntryFields]

EntryProps(e) ==
  EntryField("Name", e.fields.name) \o EntryField("RuleKind", e.fields.kind)
    \o EntryField("MinimumClearance", e.fields.clearance)
    \o EntryField("MinimumClearanceType", e.fields.unit)
    \o EntryField("Priority", e.fields.priority)

RECURSIVE RenderProps(_, _)
RenderProps(props, style) ==
  IF props = <<>> THEN <<>>
  ELSE <<"\n", " ", props[1].key, " ", "=", " ", "'">> \o props[1].value \o <<"'">>
         \o (IF style = "semicolon" THEN <<";">> ELSE <<>>)
         \o RenderProps(Tail(props), style)

RenderEntry(e) == <<"Rule", " ", "{">> \o RenderProps(EntryProps(e), e.style) \o <<"\n", "}">>

RenderEntries(es) == join(<<"\n">>, [i \in 1..Len(es) |-> RenderEntry(es[i])])

EntryLists == UNION {[1..n -> Entries] : n \in 1..MaxBlocks}

\* ------------------------------------------------------------------------
\* Operations of RuleManager and RuleGenerator
\* ------------------------------------------------------------------------
\* RuleManager.add_rule
AddRule(rule) ==
  /\ Len(rules) < MaxRules
  /\ rules' = Append(rules, rule)
  /\ op' = Call("add_rule", rule, None, rules)
  /\ UNCHANGED pivot

\* RuleManager.remove_rule (rule_index counts from 0)
remove_rule(rule_list, rule_index) ==
  IF 0 <= rule_index /\ rule_index < Len(rule_list)
  THEN [rules |-> SubSeq(rule_list, 1, rule_index)
                    \o SubSeq(rule_list, rule_index + 2, Len(rule_list)),
        ret |-> TRUE]
  ELSE [rules |-> rule_list, ret |-> FALSE]

RemoveRule(rule_index) ==
  /\ LET result == remove_rule(rules, rule_index)
     IN /\ rules' = result.rules
        /\ op' = Call("remove_rule", rule_index, result.ret, rules)
  /\ UNCHANGED pivot

\* RuleManager.get_rule_index: the index, counted from 0, of the first rule
\* of that name, None if there is none
get_rule_index(rule_list, rule_name) ==
  LET found == {i \in 1..Len(rule_list) : rule_list[i].name = rule_name}
  IN IF found = {} THEN None ELSE Ok(Min(found) - 1)

\* RuleManager.delete_rule
delete_rule(rule_list, rule_name) ==
  LET kept == SelectSeq(rule_list, LAMBDA rule : rule.name # rule_name)
  IN [rules |-> kept, ret |-> Len(kept) < Len(rule_list)]

DeleteRule(rule_name) ==
  /\ LET result == delete_rule(rules, rule_name)
     IN /\ rules' = result.rules
        /\ op' = Call("delete_rule", rule_name, result.ret, rules)
  /\ UNCHANGED pivot

\* a filter that returns the matching rules last first
get_rules_by_type_reversed(rule_list, rule_type) ==
  LET kept == SelectSeq(rule_list, LAMBDA rule : rule.rule_type = rule_type)
  IN [i \in 1..Len(kept) |-> kept[Len(kept) + 1 - i]]

\* RuleManager.get_rules_by_type, RuleGenerator.get_rules_by_type
get_rules_by_type(rule_list, rule_type) ==
  SelectSeq(rule_list, LAMBDA rule : rule.rule_type = rule_type)

GetRulesByType(rule_type) ==
  /\ op' = Call("get_rules_by_type", rule_type, get_rules_by_type(rules, rule_type), rules)
  /\ UNCHANGED <<rules, pivot>>

\* RuleGenerator.clear_rules
ClearRules ==
  /\ rules' = <<>>
  /\ op' = Call("clear_rules", None, None, rules)
  /\ UNCHANGED pivot

SerializeOps == {"to_rul_format", "generate_rul_content"}

\* the text of the directly preceding serialisation of the same rules,
\* None if the last call was something else
LastSerialized == IF op.name \in SerializeOps THEN Ok(op.ret) ELSE None

\* RuleManager.to_rul_format; every rule written draws a fresh UNIQUEID
ToRulFormat ==
  \E uids \in [1..Len(rules) -> Ids] :
    /\ op' = Call("to_rul_format", LastSerialized,
                  RuleManager_to_rul_format(rules, uids), rules)
    /\ UNCHANGED <<rules, pivot>>

\* RuleGenerator.generate_rul_content
GenerateRulContent ==
  \E uids \in [1..Len(rules) -> Ids] :
    /\ op' = Call("generate_rul_content", LastSerialized,
                  RuleManager_to_rul_format(rules, uids), rules)
    /\ UNCHANGED <<rules, pivot>>

\* the calls whose return value is a RUL text the next call can parse:
\* the serialisers and the read of a file (parse_rul_file)
TextOps == SerializeOps \cup {"read"}

\* a from_rul_content that adds to the rules held
from_rul_content_appending(rul_content) ==
  LET rule_blocks == RuleManager_extract_rule_blocks(rul_content)
      added == RuleManager_parsed_rules(rule_blocks)
  IN [rules |-> rules \o added, ret |-> rule_blocks # <<>> /\ Len(added) # 0]

\* RuleManager.from_rul_content(op.ret)
from_rul_content(rul_content) ==
  LET rule_blocks == RuleManager_extract_rule_blocks(rul_content)
      added == RuleManager_parsed_rules(rule_blocks)
  IN [rules |-> added, ret |-> rule_blocks # <<>> /\ Len(added) # 0]

FromRulContent ==
  /\ op.name \in TextOps
  /\ LET result == from_rul_content(op.ret)
     IN /\ rules' = result.rules
        /\ op' = Call("from_rul_content", op, result.ret, rules)
  /\ UNCHANGED pivot

\* RuleGenerator.parse_rul_content(op.ret)
parse_rul_content(rul_content) ==
  LET rule_blocks == RuleGenerator_extract_rule_blocks(rul_content)
  IN [rules |-> RuleGenerator_parsed_rules(rule_blocks), ret |-> rule_blocks # <<>>]

ParseRulContent ==
  /\ op.name \in TextOps
  /\ LET result == parse_rul_content(op.ret)
     IN /\ rules' = result.rules
        /\ op' = Call("parse_rul_content", op, result.ret, rules)
  /\ UNCHANGED pivot

ParseOps == {"from_rul_content", "parse_rul_content"}

\* ------------------------------------------------------------------------
\* Specifications
\* ------------------------------------------------------------------------
Init ==
  /\ rules = <<>>
  /\ pivot = NewPivot
  /\ op = Call("init", None, None, <<>>)

Next ==
  \/ \E rule \in RuleDomain : AddRule(rule)
  \/ \E rule_index \in 0..MaxRules : RemoveRule(rule_index)
  \/ \E rule_name \in RuleNames : DeleteRule(rule_name)
  \/ \E rule_type \in {CLEARANCE, SHORT_CIRCUIT, UNROUTED_NET} : GetRulesByType(rule_type)
  \/ ClearRules
  \/ ToRulFormat
  \/ GenerateRulContent
  \/ FromRulContent
  \/ ParseRulContent

Spec == Init /\ [][Next]_vars

\* SpecParse: a file holding blocks is read, then parsed by either parser
InitParse ==
  /\ rules = <<UnRoutedNetRule(<<"Old">>, TRUE, <<>>, 1, ScopeAll)>>
  /\ pivot = NewPivot
  /\ \E es \in EntryLists : op = Call("read", es, RenderEntries(es), rules)

NextParse == FromRulContent \/ ParseRulContent

SpecParse == InitParse /\ [][NextParse]_vars

\* ------------------------------------------------------------------------
\* ExcelPivotData: the clearance matrix
\* ------------------------------------------------------------------------
\* A cell or label of a DataFrame is NaN, a str or a number (in tenths).
NaN == [t |-> "nan"]
Str(s) == [t |-> "str", s |-> s]
Num(v) == [t |-> "num", v |-> v]

\* A DataFrame: its column labels and its rows, first column included.
DataFrame(columns, rows) == [t |-> "df", columns |-> columns, rows |-> rows]

\* a Python list, a numpy array
List(v) == [t |-> "list", v |-> v]
Array(v) == [t |-> "array", v |-> v]

\* load_dataframe that takes the values from every column, the first included
load_dataframe_all_columns(self, df, unit) ==
  LET stored == [self EXCEPT !.pivot_df = df, !.unit = unit]
  IN IF Len(df.rows) = 0 \/ Len(df.columns) = 0
          \/ Len(df.rows) < 2 \/ Len(df.columns) < 2
     THEN [self |-> stored, ret |-> FALSE]
     ELSE [self |-> [stored EXCEPT
                       !.column_index = List(Tail(df.columns)),
                       !.row_index = List([i \in 1..Len(df.rows) |-> df.rows[i][1]]),
                       !.values = Array([i \in 1..Len(df.rows) |-> df.rows[i]])],
           ret |-> TRUE]

\* load_dataframe that refuses the empty frame only
load_dataframe_nonempty(self, df, unit) ==
  LET stored == [self EXCEPT !.pivot_df = df, !.unit = unit]
  IN IF Len(df.rows) = 0 \/ Len(df.columns) = 0
     THEN [self |-> stored, ret |-> FALSE]
     ELSE [self |-> [stored EXCEPT
                       !.column_index = List(Tail(df.columns)),
                       !.row_index = List([i \in 1..Len(df.rows) |-> df.rows[i][1]]),
                       !.values = Array([i \in 1..Len(df.rows) |-> Tail(df.rows[i])])],
           ret |-> TRUE]

\* ExcelPivotData.load_dataframe: the object afterwards and the result
load_dataframe(self, df, unit) ==
  LET stored == [self EXCEPT !.pivot_df = df, !.unit = unit]
  IN IF Len(df.rows) = 0 \/ Len(df.columns) = 0
          \/ Len(df.rows) < 2 \/ Len(df.columns) < 2
     THEN [self |-> stored, ret |-> FALSE]
     ELSE [self |-> [stored EXCEPT
                       !.column_index = List(Tail(df.columns)),
                       !.row_index = List([i \in 1..Len(df.rows) |-> df.rows[i][1]]),
                       !.values = Array([i \in 1..Len(df.rows) |-> Tail(df.rows[i])])],
           ret |-> TRUE]

\* isinstance(name, str) and name
is_valid_header(name) == name.t = "str" /\ name.s # <<>>

\* the clearance a cell gives, None for a cell that is skipped: NaN, "", 0,
\* a value float() rejects, a negative value
cell_clearance(clearance_value) ==
  IF clearance_value.t = "nan" THEN None
  ELSE IF clearance_value.t = "str"
  THEN IF clearance_value.s = <<>> THEN None
       ELSE LET parsed == float(clearance_value.s)
            IN IF parsed = ValueError THEN None
               ELSE IF parsed.v < 0 THEN None ELSE parsed
  ELSE IF clearance_value.v = 0 THEN None
  ELSE IF clearance_value.v < 0 THEN None
  ELSE Ok(clearance_value.v)

\* str.replace of one character
RECURSIVE normalize(_)
normalize(s) == IF s = <<>> THEN <<>> ELSE Cat(<<s[1]>>, normalize(Tail(s)))

replace(s, old, new) == normalize([i \in 1..Len(s) |-> IF s[i] = old THEN new ELSE s[i]])

safe_name(name) == replace(replace(replace(name, " ", "_"), "/", "_"), "\\", "_")

\* the rule to_clearance_rules creates for one cell
cell_rule(self, rule_name_prefix, row_name, col_name, clearance_value, priority_counter) ==
  ClearanceRule(
    Cat(Cat(Cat(rule_name_prefix, safe_name(row_name)), <<"_to_">>), safe_name(col_name)),
    TRUE,
    Cat(Cat(Cat(Cat(<<"Clearance", " ", "between", " ", "NetClass", " ", "'">>, row_name),
                <<"'", " ", "and", " ", "NetClass", " ", "'">>), col_name), <<"'">>),
    priority_counter, clearance_value, self.unit,
    RuleScope("NetClass", <<row_name>>), RuleScope("NetClass", <<col_name>>))

\* the loops of to_clearance_rules over the rows and, within a row, the
\* columns; cell k (from 0) is in row k \div ncols, column k % ncols
RECURSIVE clearance_rules_from(_, _, _, _, _)
clearance_rules_from(self, rule_name_prefix, k, rule_list, priority_counter) ==
  LET ncols == Len(self.column_index.v)
  IN IF ncols = 0 \/ k >= Len(self.row_index.v) * ncols THEN rule_list
     ELSE LET row_name == self.row_index.v[(k \div ncols) + 1]
              col_name == self.column_index.v[(k % ncols) + 1]
              clearance == cell_clearance(self.values.v[(k \div ncols) + 1][(k % ncols) + 1])
          IN IF ~is_valid_header(row_name) \/ ~is_valid_header(col_name)
                  \/ clearance = None
             THEN clearance_rules_from(self, rule_name_prefix, k + 1, rule_list,
                                       priority_counter)
             ELSE clearance_rules_from(
                    self, rule_name_prefix, k + 1,
                    Append(rule_list,
                           cell_rule(self, rule_name_prefix, row_name.s, col_name.s,
                                     clearance.v, priority_counter)),
                    priority_counter + 1)

\* to_clearance_rules with its counter started at 0
to_clearance_rules_from_0(self, rule_name_prefix) ==
  IF self.pivot_df = None \/ self.values = None \/ self.row_index = None
       \/ self.column_index = None
  THEN <<>>
  ELSE clearance_rules_from(self, rule_name_prefix, 0, <<>>, 0)

\* ExcelPivotData.to_clearance_rules
to_clearance_rules(self, rule_name_prefix) ==
  IF self.pivot_df = None \/ self.values = None \/ self.row_index = None
       \/ self.column_index = None
  THEN <<>>
  ELSE clearance_rules_from(self, rule_name_prefix, 0, <<>>, 1)

\* set(self.row_index) | set(self.column_index)
net_classes_of(self) ==
  {self.row_index.v[i] : i \in 1..Len(self.row_index.v)}
    \cup {self.column_index.v[j] : j \in 1..Len(self.column_index.v)}

\* the orders in which a for loop can run through a Python set: the order
\* follows the hashes of the elements, and the hash of a str is salted anew
\* by every run of the interpreter
Orders(S) ==
  {order \in [1..Cardinality(S) -> S] :
     \A i, j \in 1..Cardinality(S) : i # j => order[i] # order[j]}

\* f"{net_class}" for a label that is a str or a blank cell
format_label(net_class) ==
  CASE net_class.t = "str" -> net_class.s
    [] net_class.t = "nan" -> <<"nan">>

\* RuleScope("NetClass", [net_class])
label_scope(net_class) ==
  RuleScope("NetClass", <<IF net_class.t = "str" THEN net_class.s ELSE net_class>>)

\* ExcelPivotData.to_short_circuit_rules, its loop run in the given order
to_short_circuit_rules(self, rule_name_prefix, order) ==
  IF self.pivot_df = None \/ self.values = None THEN <<>>
  ELSE [i \in 1..Len(order) |->
          ShortCircuitRule(Cat(rule_name_prefix, format_label(order[i])), TRUE,
                           Cat(<<"Short", " ", "circuit", " ", "rule", " ", "for", " ">>,
                               format_label(order[i])),
                           1, label_scope(order[i]))]

\* ExcelPivotData.to_unrouted_net_rules, its loop run in the given order
to_unrouted_net_rules(self, rule_name_prefix, order) ==
  IF self.pivot_df = None \/ self.values = None THEN <<>>
  ELSE [i \in 1..Len(order) |->
          UnRoutedNetRule(Cat(rule_name_prefix, format_label(order[i])), TRUE,
                          Cat(<<"Unrouted", " ", "net", " ", "rule", " ", "for", " ">>,
                              format_label(order[i])),
                          1, label_scope(order[i]))]

\* the net class a scope names, if it names one
scope_net_class(scope) ==
  IF scope.scope_type = "NetClass" /\ scope.items # <<>> THEN {scope.items[1]} ELSE {}

\* sorted(list(net_classes))
RECURSIVE sorted(_)
sorted(S) ==
  IF S = {} THEN <<>>
  ELSE LET least == CHOOSE x \in S : \A y \in S \ {x} : StrLess(x, y)
       IN <<least>> \o sorted(S \ {least})

\* list.index, from 1
index_of(l, x) == Min({i \in 1..Len(l) : l[i] = x})

\* the loop of from_clearance_rules that fills the cells, rule by rule
RECURSIVE fill_clearances(_, _, _)
fill_clearances(cells, net_classes, rule_list) ==
  IF rule_list = <<>> THEN cells
  ELSE LET rule == Head(rule_list)
           source == scope_net_class(rule.source_scope)
           target == scope_net_class(rule.target_scope)
       IN IF source # {} /\ target # {}
          THEN LET source_class == CHOOSE c \in source : TRUE
                   target_class == CHOOSE c \in target : TRUE
               IN fill_clearances(
                    [cells EXCEPT ![index_of(net_classes, source_class)]
                                   [index_of(net_classes, target_class)] =
                       Num(rule.min_clearance)],
                    net_classes, Tail(rule_list))
          ELSE fill_clearances(cells, net_classes, Tail(rule_list))

\* ExcelPivotData.from_clearance_rules: the object returned, None for no rules
from_clearance_rules(rule_list) ==
  IF rule_list = <<>> THEN None
  ELSE LET net_classes ==
             sorted(UNION {scope_net_class(rule_list[i].source_scope)
                             \cup scope_net_class(rule_list[i].target_scope) :
                           i \in 1..Len(rule_list)})
           n == Len(net_classes)
           cells == fill_clearances([i \in 1..n |-> [j \in 1..n |-> NaN]],
                                    net_classes, rule_list)
           df == DataFrame(<<Str(<<"NetClass">>)>> \o [j \in 1..n |-> Str(net_classes[j])],
                           [i \in 1..n |-> <<Str(net_classes[i])>> \o cells[i]])
       IN load_dataframe(ExcelPivotData(CLEARANCE), df, rule_list[1].unit).self

\* ------------------------------------------------------------------------
\* Operations of ExcelPivotData
\* ------------------------------------------------------------------------
A == <<"A">>
B == <<"B">>

\* row labels of a sheet: net class names, repeated names, a blank cell
RowLabels == {<<Str(A), Str(B)>>, <<Str(A), Str(A)>>, <<NaN, Str(B)>>}

\* column headers of a sheet: net class names, a numeric header
ColumnLabels == {<<Str(A), Str(B)>>, <<Str(<<"A", "/", "B">>), Num(10)>>}

\* cells of a sheet: blank, empty text, text, a number typed as text, and
\* the numbers -1.0, 0 and 0.5, 1.0, ... up to MaxCell halves
CellValues ==
  {NaN, Str(<<>>), Str(<<"abc">>), Str(<<"0">>), Num(0 - 10), Num(0)}
    \cup {Num(5 * k) : k \in 1..MaxCell}

\* the frames pd.read_excel hands over: two rows by two value columns, and
\* the frames too small to be a matrix
Frames ==
  {DataFrame(<<Str(<<"Rule", " ", "Set">>)>> \o c,
             [i \in 1..2 |-> <<r[i]>> \o v[i]]) :
     r \in RowLabels, c \in ColumnLabels, v \in [1..2 -> [1..2 -> CellValues]]}
  \cup {DataFrame(<<>>, <<>>),
        DataFrame(<<Str(<<"Rule", " ", "Set">>), Str(A)>>, <<<<Str(A), Num(10)>>>>),
        DataFrame(<<Str(<<"Rule", " ", "Set">>)>>, <<<<Str(A)>>, <<Str(B)>>>>)}

\* clearance rules of the rule collection handed to from_clearance_rules
PivotRules ==
  {ClearanceRule(<<"R">>, TRUE, <<>>, 1, m.min_clearance, m.unit, source, target) :
     source \in {ScopeAll, NetClass(A), NetClass(B)},
     target \in {ScopeAll, NetClass(A), NetClass(B)},
     m \in {[min_clearance |-> 10, unit |-> MIL], [min_clearance |-> 20, unit |-> MM]}}

PivotRuleLists == UNION {[1..n -> PivotRules] : n \in 0..MaxRules}

\* ExcelPivotData.load_dataframe(op.ret, unit) on the frame just read
LoadDataframe(unit) ==
  /\ op.name = "read_excel"
  /\ LET result == load_dataframe(pivot, op.ret, unit)
     IN /\ pivot' = result.self
        /\ op' = Call("load_dataframe", [df |-> op.ret, unit |-> unit], result.ret, pivot)
  /\ UNCHANGED rules

\* ExcelPivotData.to_clearance_rules() with its default prefix
ToClearanceRules ==
  /\ op' = Call("to_clearance_rules", <<"Clearance_">>,
                to_clearance_rules(pivot, <<"Clearance_">>), pivot)
  /\ UNCHANGED <<rules, pivot>>

\* the result of the directly preceding call of the same conversion on the
\* same object, None if the last call was something else
LastConverted(name) == IF op.name = name THEN Ok(op.ret) ELSE None

\* ExcelPivotData.to_short_circuit_rules() with its default prefix
ToShortCircuitRules ==
  /\ \E order \in Orders(IF pivot.values = None THEN {} ELSE net_classes_of(pivot)) :
       op' = Call("to_short_circuit_rules", LastConverted("to_short_circuit_rules"),
                  to_short_circuit_rules(pivot, <<"ShortCircuit_">>, order), pivot)
  /\ UNCHANGED <<rules, pivot>>

\* ExcelPivotData.to_unrouted_net_rules() with its default prefix
ToUnroutedNetRules ==
  /\ \E order \in Orders(IF pivot.values = None THEN {} ELSE net_classes_of(pivot)) :
       op' = Call("to_unrouted_net_rules", LastConverted("to_unrouted_net_rules"),
                  to_unrouted_net_rules(pivot, <<"UnroutedNet_">>, order), pivot)
  /\ UNCHANGED <<rules, pivot>>

\* the calls whose return value is a list of clearance rules
RuleListOps == {"to_clearance_rules", "get_all_rules"}

\* ExcelPivotData.from_clearance_rules(op.ret); the object returned, if any,
\* becomes the pivot object
FromClearanceRules ==
  /\ op.name \in RuleListOps
  /\ LET result == from_clearance_rules(op.ret)
     IN /\ pivot' = IF result = None THEN pivot ELSE result
        /\ op' = Call("from_clearance_rules", op, result, pivot)
  /\ UNCHANGED rules

\* SpecPivot: a sheet is read and loaded, or the rule collection is handed
\* over, and matrix and rules are converted into each other
InitPivot ==
  /\ rules = <<>>
  /\ pivot = NewPivot
  /\ \/ \E df \in Frames : op = Call("read_excel", None, df, pivot)
     \/ \E rule_list \in PivotRuleLists : op = Call("get_all_rules", None, rule_list, pivot)

NextPivot ==
  \/ \E unit \in {MIL, MM} : LoadDataframe(unit)
  \/ ToClearanceRules
  \/ FromClearanceRules

SpecPivot == InitPivot /\ [][NextPivot]_vars

\* pd.read_excel: a sheet is read at any time.  The sheets are two rows by
\* two value columns, with labels that differ only in ' ', '/', '\' and
\* '_', labels with "_to_" and repeated labels, and sheets too small to be a
\* matrix.
ReadExcel ==
  LET corner == Str(<<"Rule", " ", "Set">>)
      row_labels == {<<A, B>>, <<<<"A", " ", "B">>, <<"A_B">>>>, <<<<"A_to_B">>, A>>, <<A, A>>}
      column_labels == {<<A, B>>, <<<<"C">>, <<"B_to_C">>>>,
                        <<<<"A", "/", "B">>, <<"A", "\\", "B">>>>}
      cells == {<<<<Num(10), Num(10)>>, <<Num(10), Num(10)>>>>,
                <<<<NaN, Num(5)>>, <<Num(5), NaN>>>>}
      sheets == {DataFrame(<<corner, Str(c[1]), Str(c[2])>>,
                           [i \in 1..2 |-> <<Str(r[i])>> \o v[i]]) :
                   r \in row_labels, c \in column_labels, v \in cells}
                \cup {DataFrame(<<>>, <<>>),
                      DataFrame(<<corner, Str(A)>>, <<<<Str(A), Num(10)>>>>)}
  IN /\ \E df \in sheets : op' = Call("read_excel", None, df, pivot)
     /\ UNCHANGED <<rules, pivot>>

\* SpecLoads: one ExcelPivotData object is loaded again and again and
\* converted to rules
InitLoads ==
  /\ rules = <<>>
  /\ pivot = NewPivot
  /\ op = Call("init", None, None, pivot)

NextLoads ==
  \/ ReadExcel
  \/ \E unit \in {MIL, MM} : LoadDataframe(unit)
  \/ ToClearanceRules

SpecLoads == InitLoads /\ [][NextLoads]_vars

\* SpecOrders: a sheet is read and loaded, and the rules per net class are
\* asked for, again and again
InitOrders ==
  LET corner == Str(<<"Rule", " ", "Set">>)
      labels == {<<A, B>>, <<<<"Power">>, <<"Ground">>>>, <<B, <<"C">>>>}
      sheets == {DataFrame(<<corner, Str(c[1]), Str(c[2])>>,
                           <<<<Str(r[1]), Num(10), NaN>>, <<Str(r[2]), NaN, Num(5)>>>>) :
                   r \in labels, c \in labels}
                \cup {DataFrame(<<corner, Str(A)>>, <<<<Str(A), Num(10)>>>>)}
  IN /\ rules = <<>>
     /\ pivot = NewPivot
     /\ \E df \in sheets : op = Call("read_excel", None, df, pivot)

NextOrders ==
  \/ \E unit \in {MIL, MM} : LoadDataframe(unit)
  \/ ToShortCircuitRules
  \/ ToUnroutedNetRules

SpecOrders == InitOrders /\ [][NextOrders]_vars

\* ------------------------------------------------------------------------
\* The codec: serialise, then parse
\* ------------------------------------------------------------------------
\* C1: a ClearanceRule written by the serialiser and read back by a parser
\* comes back: the parse reports success and the collection holds exactly
\* one rule with the same name, min_clearance, unit, source scope, target
\* scope, priority, comment and enabled flag.
C1_RoundTrip ==
  (/\ op.name \in ParseOps
   /\ op.arg.name \in SerializeOps
   /\ Len(op.arg.pre) = 1
   /\ op.arg.pre[1].rule_type = CLEARANCE)
  => /\ op.ret = TRUE
     /\ Len(rules) = 1
     /\ rules[1].rule_type = CLEARANCE
     /\ rules[1].name = op.arg.pre[1].name
     /\ rules[1].min_clearance = op.arg.pre[1].min_clearance
     /\ rules[1].unit = op.arg.pre[1].unit
     /\ rules[1].source_scope = op.arg.pre[1].source_scope
     /\ rules[1].target_scope = op.arg.pre[1].target_scope
     /\ rules[1].priority = op.arg.pre[1].priority
     /\ rules[1].comment = op.arg.pre[1].comment
     /\ rules[1].enabled = op.arg.pre[1].enabled

\* C2: a parse reports success only if at least one rule was recognised;
\* an input with entries of which none is recognised gives failure and an
\* empty collection.
C2_SuccessNeedsARule ==
  op.name \in ParseOps
  => /\ op.ret = TRUE => rules # <<>>
     /\ rules = <<>> => op.ret = FALSE

\* ------------------------------------------------------------------------
\* Entries of a parsed file
\* ------------------------------------------------------------------------
RuleKinds == {<<CLEARANCE>>, <<SHORT_CIRCUIT>>, <<UNROUTED_NET>>}

\* an entry the parsers are to skip: no name, no kind, or an unknown kind
Unrecognized(e) ==
  e.fields.name = <<>> \/ e.fields.kind = <<>> \/ e.fields.kind[1] \notin RuleKinds

\* an entry none of whose values is malformed
WellFormed(e) ==
  /\ ~Unrecognized(e)
  /\ e.fields.priority \in {<<>>, <<<<"2">>>>}
  /\ e.fields.kind[1] = <<CLEARANCE>> => e.fields.clearance = <<<<"8.5">>>>

\* a clearance entry whose clearance value is not a number
BadClearance(e) ==
  /\ ~Unrecognized(e)
  /\ e.fields.priority \in {<<>>, <<<<"2">>>>}
  /\ e.fields.kind[1] = <<CLEARANCE>>
  /\ e.fields.clearance = <<<<"abc">>>>

\* the unit an entry declares, mil when it declares none
DeclaredUnit(e) ==
  IF e.fields.unit = <<>> THEN MIL ELSE UnitType_from_string(e.fields.unit[1]).v

\* C3: parsing a file that mixes well-formed entries with entries to skip
\* succeeds partially: the collection holds exactly the well-formed entries,
\* in input order, and the result is success when there is at least one.
C3_PartialSuccess ==
  (/\ op.name \in ParseOps
   /\ op.arg.name = "read"
   /\ \A i \in 1..Len(op.arg.arg) :
        Unrecognized(op.arg.arg[i]) \/ WellFormed(op.arg.arg[i]))
  => LET kept == SelectSeq(op.arg.arg, WellFormed)
     IN /\ Len(rules) = Len(kept)
        /\ \A i \in 1..Len(kept) :
             /\ rules[i].name = kept[i].fields.name[1]
             /\ <<rules[i].rule_type>> = kept[i].fields.kind[1]
        /\ kept # <<>> => op.ret = TRUE

\* C4: a clearance entry whose clearance value is not a number yields a
\* ClearanceRule of 10.0 in the unit the entry declares, and the other
\* entries are parsed as they are without it.
C4_BadClearanceDefault ==
  (/\ op.name \in ParseOps
   /\ op.arg.name = "read"
   /\ \A i \in 1..Len(op.arg.arg) :
        Unrecognized(op.arg.arg[i]) \/ WellFormed(op.arg.arg[i])
          \/ BadClearance(op.arg.arg[i]))
  => LET kept == SelectSeq(op.arg.arg, LAMBDA e : WellFormed(e) \/ BadClearance(e))
     IN /\ Len(rules) = Len(kept)
        /\ \A i \in 1..Len(kept) :
             /\ rules[i].name = kept[i].fields.name[1]
             /\ <<rules[i].rule_type>> = kept[i].fields.kind[1]
             /\ BadClearance(kept[i])
                  => /\ rules[i].min_clearance = 100
                     /\ rules[i].unit = DeclaredUnit(kept[i])

\* ------------------------------------------------------------------------
\* The collection
\* ------------------------------------------------------------------------
\* C9: delete_rule(name) removes the first rule of that name only: the
\* rules before and after it stay, later rules of the same name included,
\* and it reports whether a rule was removed.
C9_DeleteFirstOnly ==
  op.name = "delete_rule"
  => LET index == get_rule_index(op.pre, op.arg)
     IN IF index = None
        THEN rules = op.pre /\ op.ret = FALSE
        ELSE rules = remove_rule(op.pre, index.v).rules /\ op.ret = TRUE

\* the UNIQUEID values of a serialised text, in order
UniqueIds(text) ==
  LET at == {i \in 1..(Len(text) - 2) : text[i] = "UNIQUEID" /\ text[i + 1] = "="}
  IN [i \in at |-> text[i + 2]]

\* C10: serialising the same rules twice in a row writes the same UNIQUEID
\* for every rule.
C10_StableUniqueId ==
  (op.name \in SerializeOps /\ op.arg # None)
  => UniqueIds(op.ret) = UniqueIds(op.arg.v)

\* ------------------------------------------------------------------------
\* Matrix and rules
\* ------------------------------------------------------------------------
\* the positions of a loaded matrix, rows outer, columns inner
Positions(self) ==
  LET ncols == Len(self.column_index.v)
  IN [k \in 1..(Len(self.row_index.v) * ncols) |->
        [row |-> ((k - 1) \div ncols) + 1, col |-> ((k - 1) % ncols) + 1]]

IsLoaded(self) == self.values # None /\ self.row_index # None /\ self.column_index # None

\* the number a cell holds, None when it holds none
CellNumber(cell) ==
  IF cell.t = "num" THEN Ok(cell.v)
  ELSE IF cell.t = "str" /\ float(cell.s) # ValueError THEN float(cell.s)
  ELSE None

\* a cell whose value is present, not NaN and strictly greater than 0
PositiveCell(self, at) ==
  LET number == CellNumber(self.values.v[at.row][at.col])
  IN number # None /\ number.v > 0

\* the NetClass scope a label names
LabelScope(label) == RuleScope("NetClass", <<IF label.t = "str" THEN label.s ELSE label>>)

\* C5: to_clearance_rules emits exactly one ClearanceRule for each cell whose
\* value is strictly greater than 0, with the row label as source net class,
\* the column label as target net class, the cell value as min_clearance and
\* the unit of the matrix; no other cell gives a rule, so there are as many
\* rules as positive cells.
C5_OneRulePerPositiveCell ==
  (op.name = "to_clearance_rules" /\ IsLoaded(op.pre))
  => LET positive == SelectSeq(Positions(op.pre), LAMBDA at : PositiveCell(op.pre, at))
     IN /\ Len(op.ret) = Len(positive)
        /\ \A k \in 1..Len(positive) :
             /\ op.ret[k].source_scope = LabelScope(op.pre.row_index.v[positive[k].row])
             /\ op.ret[k].target_scope = LabelScope(op.pre.column_index.v[positive[k].col])
             /\ Ok(op.ret[k].min_clearance)
                  = CellNumber(op.pre.values.v[positive[k].row][positive[k].col])
             /\ op.ret[k].unit = op.pre.unit

\* the cells to_clearance_rules makes a rule of
EmittingCell(self, at) ==
  /\ is_valid_header(self.row_index.v[at.row])
  /\ is_valid_header(self.column_index.v[at.col])
  /\ cell_clearance(self.values.v[at.row][at.col]) # None

\* C6: the k-th rule to_clearance_rules emits, counting the cells rows outer
\* and columns inner, has priority k: n rules have the priorities 1..n, also
\* when cells in between are skipped.
C6_RowMajorPriorities ==
  op.name = "to_clearance_rules"
  => /\ \A k \in 1..Len(op.ret) : op.ret[k].priority = k
     /\ IsLoaded(op.pre)
          => LET emitting == SelectSeq(Positions(op.pre),
                                       LAMBDA at : EmittingCell(op.pre, at))
             IN /\ Len(op.ret) = Len(emitting)
                /\ \A k \in 1..Len(emitting) :
                     /\ op.ret[k].source_scope
                          = LabelScope(op.pre.row_index.v[emitting[k].row])
                     /\ op.ret[k].target_scope
                          = LabelScope(op.pre.column_index.v[emitting[k].col])

\* three rules made of a matrix whose second cell is blank
C6_Witness ==
  /\ op.name = "to_clearance_rules"
  /\ IsLoaded(op.pre)
  /\ op.pre.values.v[1][2] = NaN
  /\ Len(op.ret) = 3
  /\ op.ret[3].priority = 3

\* the sorted net class names of the NetClass scopes of a rule list
NetClassNames(rule_list) ==
  sorted(UNION {scope_net_class(rule_list[i].source_scope)
                  \cup scope_net_class(rule_list[i].target_scope) :
                i \in 1..Len(rule_list)})

\* C7: for a non-empty list of ClearanceRules, from_clearance_rules returns
\* a square matrix whose row labels and column labels are the sorted net
\* class names of the rules' NetClass scopes, whose cell [source][target] is
\* the min_clearance of every rule with NetClass source and target, and
\* whose other cells are NaN.
C7_RulesToMatrix ==
  (op.name = "from_clearance_rules" /\ op.arg.ret # <<>>)
  => LET rule_list == op.arg.ret
         names == NetClassNames(rule_list)
         labels == List([i \in 1..Len(names) |-> Str(names[i])])
         between(i, j) ==
           {k \in 1..Len(rule_list) :
              /\ rule_list[k].source_scope = NetClass(names[i])
              /\ rule_list[k].target_scope = NetClass(names[j])}
     IN /\ op.ret # None
        /\ pivot = op.ret
        /\ pivot.row_index = labels
        /\ pivot.column_index = labels
        /\ pivot.values # None
        /\ \A i \in 1..Len(names) : \A j \in 1..Len(names) :
             /\ \A k \in between(i, j) :
                  pivot.values.v[i][j] = Num(rule_list[k].min_clearance)
             /\ between(i, j) = {} => pivot.values.v[i][j] = NaN

\* the cells of a loaded matrix under a pair of labels
CellsAt(self, row_name, col_name) ==
  {self.values.v[i][j] : i \in {i \in 1..Len(self.row_index.v) :
                                  self.row_index.v[i] = Str(row_name)},
                         j \in {j \in 1..Len(self.column_index.v) :
                                  self.column_index.v[j] = Str(col_name)}}

\* C8: for a matrix M that gives at least one rule,
\* from_clearance_rules(to_clearance_rules(M)) is a matrix with M's unit in
\* which exactly the cells positive in M are populated, with M's value under
\* the same row and column label, and every other cell is NaN.
C8_MatrixRoundTrip ==
  (/\ op.name = "from_clearance_rules"
   /\ op.arg.name = "to_clearance_rules"
   /\ op.arg.ret # <<>>)
  => LET M == op.arg.pre
         names == {M.row_index.v[i].s : i \in {i \in 1..Len(M.row_index.v) :
                                                 M.row_index.v[i].t = "str"}}
                    \cup {M.column_index.v[j].s : j \in {j \in 1..Len(M.column_index.v) :
                                                           M.column_index.v[j].t = "str"}}
     IN /\ op.ret # None
        /\ pivot = op.ret
        /\ pivot.unit = M.unit
        /\ IsLoaded(pivot)
        /\ \A at \in {Positions(pivot)[k] : k \in 1..Len(Positions(pivot))} :
             LET row_name == pivot.row_index.v[at.row].s
                 col_name == pivot.column_index.v[at.col].s
                 cell == pivot.values.v[at.row][at.col]
             IN cell = NaN \/ (cell.v > 0 /\ cell \in CellsAt(M, row_name, col_name))
        /\ \A row_name \in names : \A col_name \in names :
             \A cell \in CellsAt(M, row_name, col_name) :
               (CellNumber(cell) # None /\ CellNumber(cell).v > 0)
                 => CellNumber(cell) \in {CellNumber(c) : c \in CellsAt(pivot, row_name, col_name)}

\* ------------------------------------------------------------------------
\* The serialised line
\* ------------------------------------------------------------------------
\* the rules that are serialised: with and without name and comment, enabled
\* or not, of the three kinds, with scopes of every type (one with a name of
\* several words, some without items)
FormatRules ==
  LET scopes == {ScopeAll, NetClass(A), NetClass(<<"Power", " ", "Net">>),
                 RuleScope("NetClasses", <<A, B>>), RuleScope("Custom", <<<<"IsPad">>>>),
                 RuleScope("NetClasses", <<>>), RuleScope("NetClass", <<>>)}
      targets == {NetClass(B), RuleScope("NetClasses", <<B, A>>), RuleScope("Custom", <<>>)}
      bases == [name : {<<>>, <<"My", " ", "Rule">>},
                flag : {[enabled |-> TRUE, priority |-> 1, min_clearance |-> 85, unit |-> MIL],
                        [enabled |-> FALSE, priority |-> 2, min_clearance |-> 100, unit |-> MM]},
                comment : {<<>>, <<" ">>, <<"tight", " ", "gap">>}]
  IN {ClearanceRule(b.name, b.flag.enabled, b.comment, b.flag.priority,
                    b.flag.min_clearance, b.flag.unit, source, target) :
        b \in bases, source \in scopes, target \in targets}
     \cup {ShortCircuitRule(b.name, b.flag.enabled, b.comment, b.flag.priority, scope) :
             b \in bases, scope \in scopes}
     \cup {UnRoutedNetRule(b.name, b.flag.enabled, b.comment, b.flag.priority, scope) :
             b \in bases, scope \in scopes}

\* SpecFormat: a collection of one rule is serialised, again and again
InitFormat ==
  /\ \E rule \in FormatRules : rules = <<rule>>
  /\ pivot = NewPivot
  /\ op = Call("init", None, None, <<>>)

NextFormat == ToRulFormat \/ GenerateRulContent

SpecFormat == InitFormat /\ [][NextFormat]_vars

\* the KEY=VALUE fields of a line, split at "|"
RECURSIVE FieldsOf(_)
FieldsOf(line) ==
  LET bars == {i \in 1..Len(line) : line[i] = "|"}
  IN IF bars = {} THEN <<line>>
     ELSE <<SubSeq(line, 1, Min(bars) - 1)>>
            \o FieldsOf(SubSeq(line, Min(bars) + 1, Len(line)))

\* the line of the one rule of the collection has just been written
LineWritten == op.name \in SerializeOps /\ Len(op.pre) = 1

\* the keys of the line just written
KeysWritten == LET fields == FieldsOf(op.ret) IN {fields[i][1] : i \in 1..Len(fields)}

\* the value the line just written gives a key
ValueWritten(key) ==
  LET fields == FieldsOf(op.ret)
      field == fields[CHOOSE i \in 1..Len(fields) : fields[i][1] = key]
  IN SubSeq(field, 3, Len(field))

\* C11: in a serialised line the KEY=VALUE fields stand in ascending
\* alphabetical order of their keys, for every rule kind and whatever the
\* values are.
C11_KeysAscending ==
  LineWritten
  => LET fields == FieldsOf(op.ret)
     IN /\ \A i \in 1..Len(fields) : Len(fields[i]) >= 2 /\ fields[i][2] = "="
        /\ \A i \in 1..(Len(fields) - 1) : StrLess(<<fields[i][1]>>, <<fields[i + 1][1]>>)

\* a clearance line with a comment: COMMENT first, USERROUTED last, and
\* LAYER before LAYERKIND
C11_Witness ==
  /\ LineWritten
  /\ op.pre[1].rule_type = CLEARANCE
  /\ LET fields == FieldsOf(op.ret)
     IN /\ fields[1][1] = "COMMENT"
        /\ fields[Len(fields)][1] = "USERROUTED"
        /\ \E i \in 1..(Len(fields) - 1) :
             fields[i][1] = "LAYER" /\ fields[i + 1][1] = "LAYERKIND"

\* C12: no field of a serialised line has an empty value, and the line has
\* a COMMENT field exactly when the rule's comment is not empty.
C12_NoEmptyValue ==
  LineWritten
  => LET fields == FieldsOf(op.ret)
     IN /\ \A i \in 1..Len(fields) : Len(fields[i]) >= 3
        /\ (\E i \in 1..Len(fields) : fields[i][1] = "COMMENT") <=> op.pre[1].comment # <<>>

\* a rule without name and comment written without NAME and COMMENT
C12_Witness ==
  /\ LineWritten
  /\ op.pre[1].comment = <<>>
  /\ op.pre[1].name = <<>>
  /\ "COMMENT" \notin KeysWritten
  /\ "NAME" \notin KeysWritten
  /\ "PRIORITY" \in KeysWritten

\* the kinds on whose lines a kind-specific key of the format table may stand
KindsOfKey ==
  [GAP |-> {CLEARANCE}, GENERICCLEARANCE |-> {CLEARANCE},
   IGNOREPADTOPADCLEARANCEINFOOTPRINT |-> {CLEARANCE},
   ALLOWED |-> {SHORT_CIRCUIT}, CHECKBADCONNECTIONS |-> {UNROUTED_NET}]

\* C13: a kind-specific key stands only on lines of the kinds the format
\* table lists for it: GAP, GENERICCLEARANCE and
\* IGNOREPADTOPADCLEARANCEINFOOTPRINT on Clearance lines, ALLOWED on
\* ShortCircuit lines, CHECKBADCONNECTIONS on UnroutedNet lines, and
\* SCOPE2EXPRESSION on Clearance and ShortCircuit lines, never on an
\* UnroutedNet line.
C13_KindSpecificKeys ==
  LineWritten
  => LET keys == KeysWritten
     IN /\ \A key \in DOMAIN KindsOfKey :
             key \in keys => op.pre[1].rule_type \in KindsOfKey[key]
        /\ "SCOPE2EXPRESSION" \in keys
             => op.pre[1].rule_type \in {CLEARANCE, SHORT_CIRCUIT}

\* C13, as the code has it: GAP, GENERICCLEARANCE and
\* IGNOREPADTOPADCLEARANCEINFOOTPRINT stand only on Clearance lines, ALLOWED
\* only on ShortCircuit lines and CHECKBADCONNECTIONS only on UnroutedNet
\* lines; SCOPE2EXPRESSION stands on every UnroutedNet line as well, always
\* with the value All.
C13_KindSpecificKeysAmended ==
  LineWritten
  => LET keys == KeysWritten
     IN /\ \A key \in DOMAIN KindsOfKey :
             key \in keys => op.pre[1].rule_type \in KindsOfKey[key]
        /\ op.pre[1].rule_type = UNROUTED_NET
             => "SCOPE2EXPRESSION" \in keys /\ ValueWritten("SCOPE2EXPRESSION") = <<"All">>

\* an unrouted-net line of a rule with a net-class scope: it has
\* CHECKBADCONNECTIONS and SCOPE2EXPRESSION, and none of the other kinds' keys
C13_Witness ==
  /\ LineWritten
  /\ op.pre[1].rule_type = UNROUTED_NET
  /\ op.pre[1].scope = NetClass(A)
  /\ {"CHECKBADCONNECTIONS", "SCOPE2EXPRESSION"} \subseteq KeysWritten
  /\ KeysWritten \cap {"GAP", "GENERICCLEARANCE", "ALLOWED"} = {}

\* a scope as the glossary requires it: All without items, the other types
\* with items of which the first is not empty
ValidScope(scope) ==
  IF scope.scope_type = "All" THEN scope.items = <<>>
  ELSE scope.items # <<>> /\ scope.items[1] # <<>>

\* the primary scope of a rule: the source scope of a clearance rule, the
\* single scope otherwise
PrimaryScope(rule) == IF rule.rule_type = CLEARANCE THEN rule.source_scope ELSE rule.scope

Limb == 2^14
BigZero == [i \in 1..8 |-> 0]

\* the number n < 2^28
Big(n) == [i \in 1..8 |-> IF i = 1 THEN n % Limb ELSE IF i = 2 THEN n \div Limb ELSE 0]

\* column sums (or differences) to limbs, from limb i on with carry c
RECURSIVE Carry(_, _, _)
Carry(cols, i, c) ==
  IF i > Len(cols) THEN <<>>
  ELSE <<(cols[i] + c) % Limb>> \o Carry(cols, i + 1, (cols[i] + c) \div Limb)

BigAdd(a, b) == Carry([i \in 1..8 |-> a[i] + b[i]], 1, 0)

\* a - b for a >= b
BigSub(a, b) == Carry([i \in 1..8 |-> a[i] - b[i]], 1, 0)

\* a * b for a, b < 2^56
BigMul(a, b) ==
  LET term(i, k) == IF (k + 1) - i \in 1..4 THEN a[i] * b[(k + 1) - i] ELSE 0
  IN Carry([k \in 1..8 |-> term(1, k) + term(2, k) + term(3, k) + term(4, k)], 1, 0)

BigGE(a, b) == a = b \/ \E i \in 1..8 : a[i] > b[i] /\ \A j \in (i + 1)..8 : a[j] = b[j]

\* bit n of a, bit 0 the least significant
Bit(a, n) == IF n >= 112 THEN 0 ELSE (a[(n \div 14) + 1] \div 2^(n % 14)) % 2

\* the number of bits of a
BitLength(a) ==
  IF a = BigZero THEN 0
  ELSE LET top == CHOOSE i \in 1..8 : a[i] > 0 /\ \A j \in (i + 1)..8 : a[j] = 0
       IN 14 * (top - 1) + (CHOOSE k \in 1..14 : 2^(k - 1) <= a[top] /\ a[top] < 2^k)

\* a \div 2^n
ShiftRight(a, n) ==
  LET q == n \div 14
      r == n % 14
      limb(i) == IF i \in 1..8 THEN a[i] ELSE 0
  IN [j \in 1..8 |-> (limb(j + q) \div 2^r) + (limb(j + q + 1) % 2^r) * 2^(14 - r)]

\* a * 2^n, for a result below 2^112
ShiftLeft(a, n) ==
  LET q == n \div 14
      r == n % 14
      limb(i) == IF i \in 1..8 THEN a[i] ELSE 0
  IN [j \in 1..8 |-> (limb(j - q) % 2^(14 - r)) * 2^r + (limb(j - q - 1) \div 2^(14 - r))]

\* a, a number of 53 bits or more, with a fraction below it that is zero or
\* (inexact) not, rounded to 53 bits: the significand m and the number n of
\* bits of a that were dropped
RoundEven(a, inexact) ==
  LET n == BitLength(a) - 53
      q == ShiftRight(a, n)
      half == n > 0 /\ Bit(a, n - 1) = 1
      rest == inexact \/ \E t \in 0..(n - 2) : Bit(a, t) = 1
      up == IF n = 0 THEN FALSE ELSE half /\ (rest \/ Bit(a, n) = 1)
      r == IF up THEN BigAdd(q, Big(1)) ELSE q
  IN IF BitLength(r) = 54 THEN [m |-> ShiftRight(r, 1), n |-> n + 1] ELSE [m |-> r, n |-> n]

\* k more binary digits of a quotient: s.q is the quotient found so far and
\* s.r the remainder it leaves, d the divisor
RECURSIVE DivLoop(_, _, _)
DivLoop(s, d, k) ==
  IF k = 0 THEN s
  ELSE LET r2 == BigAdd(s.r, s.r)
           q2 == BigAdd(s.q, s.q)
       IN IF BigGE(r2, d)
          THEN DivLoop([r |-> BigSub(r2, d), q |-> BigAdd(q2, Big(1))], d, k - 1)
          ELSE DivLoop([r |-> r2, q |-> q2], d, k - 1)

\* a float: sign * m * 2^e with 2^52 <= m < 2^53, or zero.  The values of
\* the model are far from the subnormal numbers and from overflow.
FloatZero == [sign |-> 1, m |-> BigZero, e |-> 0]

\* float(k * 2^e2) for an integer k, |k| < 2^28
Float(k, e2) ==
  IF k = 0 THEN FloatZero
  ELSE LET a == Big(IF k < 0 THEN 0 - k ELSE k)
           sh == 53 - BitLength(a)
       IN [sign |-> IF k < 0 THEN 0 - 1 ELSE 1, m |-> ShiftLeft(a, sh), e |-> e2 - sh]

\* x * y
fmul(x, y) ==
  IF x.m = BigZero \/ y.m = BigZero THEN FloatZero
  ELSE LET r == RoundEven(BigMul(x.m, y.m), FALSE)
       IN [sign |-> x.sign * y.sign, m |-> r.m, e |-> x.e + y.e + r.n]

\* x / y, y not zero: floor(x.m * 2^55 / y.m), rounded
fdiv(x, y) ==
  IF x.m = BigZero THEN FloatZero
  ELSE LET first == IF BigGE(x.m, y.m) THEN 1 ELSE 0
           d == DivLoop([r |-> IF first = 1 THEN BigSub(x.m, y.m) ELSE x.m, q |-> Big(first)],
                        y.m, 55)
           r == RoundEven(d.q, d.r # BigZero)
       IN [sign |-> x.sign * y.sign, m |-> r.m, e |-> ((x.e - y.e) - 55) + r.n]

\* the literal 39.37007874015748 as a float: 0x1.3af5ebd7af5ecp+5
MM_TO_MIL == [sign |-> 1, m |-> <<13804, 13803, 13803, 1259, 0, 0, 0, 0>>, e |-> 0 - 47]
INCH_TO_MIL == 1000

\* UnitType.convert; an int argument takes the same values as its float
convert(value, from_unit, to_unit) ==
  LET value_mils == IF from_unit = MM THEN fmul(value, MM_TO_MIL)
                    ELSE IF from_unit = INCH THEN fmul(value, Float(INCH_TO_MIL, 0))
                    ELSE value
  IN IF to_unit = MM THEN fdiv(value_mils, MM_TO_MIL)
     ELSE IF to_unit = INCH THEN fdiv(value_mils, Float(INCH_TO_MIL, 0))
     ELSE value_mils

\* ------------------------------------------------------------------------
\* Scope and unit conversions
\* ------------------------------------------------------------------------
\* scope objects handed to to_query_string: net class names that are
\* identifiers, a name of two words, a name with characters outside
\* [A-Za-z0-9_-], a name with a blank at each end; lists of one to three
\* names; custom expressions bare, quoted, with a call, with ';'
ScopeObjects ==
  {ScopeAll}
  \cup {NetClass(n) : n \in {A, B, <<"Power", " ", "Net">>, <<"+3.3V">>, <<" ", "A", " ">>}}
  \cup {RuleScope("NetClasses", items) :
          items \in {<<A>>, <<A, B>>, <<B, A>>, <<A, B, A>>,
                     <<<<"Power", " ", "Net">>, A>>, <<A, <<"+3.3V">>>>}}
  \cup {RuleScope("Custom", <<expr>>) :
          expr \in {<<"IsPad">>, <<"'", "Net1", "'">>, <<"\"", "Net1", "\"">>,
                    <<"InNet", "(", "'", "GND", "'", ")">>,
                    <<"IsPad", " ", "AND", " ", "OnLayer", "(", "'", "Top", "'", ")">>,
                    <<"'", "a", ";", "b", "'">>}}

\* scope strings handed to the parsers as they are
ScopeStrings ==
  {<<>>, <<"all">>, <<"All">>, <<"ALL">>, <<"aLl">>, <<" ", "all", " ">>, <<" ">>,
   <<"InNetClass", "(", "\"", "A", "\"", ")">>,
   <<"InNetClasses", "(", "'", "A", ";", "B", "'", ")">>,
   <<"IsPad", " ", "OR", " ", "IsVia">>}

\* unit strings handed to from_string: spellings of the units and other
\* words, with and without white space around them
UnitStrings ==
  LET words == {"mil", "MIL", "Mil", "mils", "MILS", "mm", "MM", "Mm", "millimeter",
                "Millimeter", "millimeters", "MILLIMETERS", "inch", "Inch", "INCH",
                "inches", "Inches", "in", "IN", "In", "cm", "CM", "mi", "milss", "meter",
                "inchs"}
      paddings == {<<>>, <<" ">>, <<"\t", " ">>}
  IN {l \o <<w>> \o r : w \in words, l \in paddings, r \in paddings}
       \cup {<<>>, <<" ">>, <<"m", " ", "m">>}

\* arguments of convert: the halves from 0 to MaxHalves / 2, 1000, a
\* negative value, with every pair of units
ConvertArgs ==
  [value : {Float(k, 0 - 1) : k \in 0..MaxHalves} \cup {Float(1000, 0), Float(0 - 5, 0 - 1)},
   from_unit : UnitType, to_unit : UnitType]

\* scope.to_query_string()
ToQueryString ==
  /\ op.name = "RuleScope"
  /\ op' = Call("to_query_string", op.ret, to_query_string(op.ret), <<>>)
  /\ UNCHANGED <<rules, pivot>>

\* RuleManager._parse_scope(scope_str) on the string of the preceding step
ManagerParseScope ==
  /\ op.name \in {"to_query_string", "scope_str"}
  /\ op' = Call("RuleManager_parse_scope", op, RuleManager_parse_scope(op.ret), <<>>)
  /\ UNCHANGED <<rules, pivot>>

\* RuleGenerator._parse_scope(scope_str) on the string of the preceding step
GeneratorParseScope ==
  /\ op.name \in {"to_query_string", "scope_str"}
  /\ op' = Call("RuleGenerator_parse_scope", op, RuleGenerator_parse_scope(op.ret), <<>>)
  /\ UNCHANGED <<rules, pivot>>

\* UnitType.from_string(unit_str)
FromString ==
  /\ op.name = "unit_str"
  /\ op' = Call("from_string", op.ret, UnitType_from_string(op.ret), <<>>)
  /\ UNCHANGED <<rules, pivot>>

\* UnitType.convert(value, from_unit, to_unit)
Convert ==
  /\ op.name = "value"
  /\ op' = Call("convert", op.ret,
                convert(op.ret.value, op.ret.from_unit, op.ret.to_unit), <<>>)
  /\ UNCHANGED <<rules, pivot>>

\* SpecConvert: a scope object, a scope string, a unit string or a value with
\* two units is drawn and the conversions are applied to it
InitConvert ==
  /\ rules = <<>>
  /\ pivot = NewPivot
  /\ \/ \E scope \in ScopeObjects : op = Call("RuleScope", None, scope, <<>>)
     \/ \E scope_str \in ScopeStrings : op = Call("scope_str", None, scope_str, <<>>)
     \/ \E unit_str \in UnitStrings : op = Call("unit_str", None, unit_str, <<>>)
     \/ \E args \in ConvertArgs : op = Call("value", None, args, <<>>)

NextConvert ==
  ToQueryString \/ ManagerParseScope \/ GeneratorParseScope \/ FromString \/ Convert

SpecConvert == InitConvert /\ [][NextConvert]_vars

\* the term InNetClass('n')
ClassTerm(n) == <<"InNetClass", "(", "'">> \o n \o <<"'", ")">>

\* the terms of the names, in order, with " OR " between them
RECURSIVE OrTerms(_)
OrTerms(names) ==
  IF Len(names) = 1 THEN ClassTerm(names[1])
  ELSE ClassTerm(names[1]) \o <<" ", "OR", " ">> \o OrTerms(Tail(names))

\* C15: to_query_string gives All for the All scope, InNetClass('n') for
\* NetClass(n), the terms InNetClass('n1') OR ... OR InNetClass('nk') in the
\* order of the names and without parentheses around them for NetClasses,
\* and the expression itself, unchanged, for Custom.
C15_QueryString ==
  op.name = "to_query_string"
  => /\ op.arg.scope_type = "All" => op.ret = <<"All">>
     /\ op.arg.scope_type = "NetClass" => op.ret = ClassTerm(op.arg.items[1])
     /\ op.arg.scope_type = "NetClasses" => op.ret = OrTerms(op.arg.items)
     /\ op.arg.scope_type = "Custom" => op.ret = op.arg.items[1]

\* the query string of a list of three classes
C15_Witness ==
  /\ op.name = "to_query_string"
  /\ op.arg = RuleScope("NetClasses", <<A, B, A>>)
  /\ op.ret = <<"InNetClass", "(", "'", "A", "'", ")", " ", "OR", " ",
                "InNetClass", "(", "'", "B", "'", ")", " ", "OR", " ",
                "InNetClass", "(", "'", "A", "'", ")">>

\* a scope string has just been parsed, by either parser
ScopeParsed == op.name \in {"RuleManager_parse_scope", "RuleGenerator_parse_scope"}

\* the empty string and the case variants of "all"
AllSpellings == {<<>>, <<"all">>, <<"All">>, <<"ALL">>, <<"aLl">>}

\* C16: both parsers read the empty string and every case variant of "all"
\* as the All scope.
C16_AllSpellings ==
  ScopeParsed /\ op.arg.ret \in AllSpellings => op.ret = RuleScope("All", <<>>)

\* RuleManager._parse_scope has read "aLl" as All
C16_Witness ==
  /\ op.name = "RuleManager_parse_scope"
  /\ op.arg.name = "scope_str"
  /\ op.arg.ret = <<"aLl">>
  /\ op.ret.scope_type = "All"

\* a parser has just read the string to_query_string gave for a scope
QueryStringParsed == ScopeParsed /\ op.arg.name = "to_query_string"

\* the scope to_query_string was given, in a state of QueryStringParsed
ScopeWritten == op.arg.arg

\* C17: the string to_query_string gives for NetClasses of two or more
\* names, InNetClass terms joined by " OR ", parses to NetClasses with the
\* same names in the same order, with either parser; it does not collapse
\* to the NetClass of the first name.
C17_ClassListRoundTrip ==
  (/\ QueryStringParsed
   /\ ScopeWritten.scope_type = "NetClasses"
   /\ Len(ScopeWritten.items) >= 2)
  => op.ret = RuleScope("NetClasses", ScopeWritten.items)

\* C18: RuleManager._parse_scope reads the string to_query_string gives for
\* the All scope and for NetClass(n), n not empty, as a scope of the same
\* type with the same name, also when n has blanks or other characters
\* outside [A-Za-z0-9_-].
C18_SingleClassRoundTrip ==
  (/\ QueryStringParsed
   /\ op.name = "RuleManager_parse_scope"
   /\ ScopeWritten.scope_type \in {"All", "NetClass"}
   /\ ScopeWritten.scope_type = "NetClass" => ScopeWritten.items[1] # <<>>)
  => op.ret = ScopeWritten

\* C19: the string of a Custom scope, quoted or bare, parses to Custom with
\* exactly that text, with either parser: no quote is stripped, the text is
\* not split and not turned into All.
C19_CustomRoundTrip ==
  QueryStringParsed /\ ScopeWritten.scope_type = "Custom"
  => op.ret = RuleScope("Custom", <<op.arg.ret>>) /\ op.ret = ScopeWritten

\* the spellings of the unit words, in lower, upper and mixed case
MilSpellings == {"mil", "MIL", "Mil", "mils", "MILS"}
MmSpellings == {"mm", "MM", "Mm", "millimeter", "Millimeter", "millimeters", "MILLIMETERS"}
InchSpellings == {"inch", "Inch", "INCH", "inches", "Inches", "in", "IN", "In"}

\* the text is one of the words with any white space before and after it
Spells(text, words) ==
  \E i \in 1..Len(text) :
    /\ text[i] \in words
    /\ \A j \in 1..Len(text) : j # i => text[j] \in WhiteSpace

\* C20: from_string ignores case and surrounding white space; it returns
\* MIL for mil and mils, MM for mm, millimeter and millimeters, INCH for
\* inch, inches and in, and raises an error, never a default unit, for
\* every other string, the empty one included.
C20_UnitParsing ==
  op.name = "from_string"
  => /\ Spells(op.arg, MilSpellings) => op.ret = Ok(MIL)
     /\ Spells(op.arg, MmSpellings) => op.ret = Ok(MM)
     /\ Spells(op.arg, InchSpellings) => op.ret = Ok(INCH)
     /\ ~Spells(op.arg, MilSpellings \cup MmSpellings \cup InchSpellings)
          => op.ret = ValueError

\* " Millimeter" between a tab and blanks read as MM
C20_Witness ==
  /\ op.name = "from_string"
  /\ op.arg = <<"\t", " ", "Millimeter", " ">>
  /\ op.ret = Ok(MM)

\* the empty string and the word cm refused
C20_WitnessError ==
  /\ op.name = "from_string"
  /\ op.arg \in {<<>>, <<"cm">>}
  /\ op.ret = ValueError

\* C21: convert goes through mil with 1 inch = 1000 mil:
\* convert(1000, MIL, INCH) = 1, convert(1, INCH, MIL) = 1000, and
\* convert(x, U, U) = x exactly for every value x and every unit U.
C21_Convert ==
  op.name = "convert"
  => /\ op.arg = [value |-> Float(1000, 0), from_unit |-> MIL, to_unit |-> INCH]
          => op.ret = Float(1, 0)
     /\ op.arg = [value |-> Float(1, 0), from_unit |-> INCH, to_unit |-> MIL]
          => op.ret = Float(1000, 0)
     /\ op.arg.from_unit = op.arg.to_unit => op.ret = op.arg.value

\* C22: whenever the values of an ExcelPivotData are set, they have
\* len(row_index) rows and len(column_index) columns; load_dataframe stores
\* nothing else.
C22_ShapeInvariant ==
  pivot.values # None
  => /\ pivot.row_index # None
     /\ pivot.column_index # None
     /\ Len(pivot.values.v) = Len(pivot.row_index.v)
     /\ \A i \in 1..Len(pivot.values.v) : Len(pivot.values.v[i]) = Len(pivot.column_index.v)

\* a sheet of two rows and two value columns has been loaded over an
\* earlier one
C22_Witness ==
  /\ op.name = "load_dataframe"
  /\ op.ret = TRUE
  /\ op.pre.values # None
  /\ pivot.values # op.pre.values
  /\ Len(pivot.values.v) = 2
  /\ Len(pivot.column_index.v) = 2

\* C23: every rule that exists has a non-empty name and a priority of at
\* least 1: no rule without a name and no rule of priority 0 or less is
\* constructed, written to a rule file, or added to the collection by a
\* parser.
C23_NameAndPriority ==
  /\ \A i \in 1..Len(rules) : rules[i].name # <<>> /\ rules[i].priority >= 1
  /\ op.name \in SerializeOps
       => \A i \in 1..Len(op.pre) : op.pre[i].name # <<>> /\ op.pre[i].priority >= 1
\* C24: the rule collection keeps insertion order.  add_rule leaves the
\* rules held before in place and puts the added rule after them, whatever
\* its name; get_rules_by_type(k) returns the rules of kind k, each once, in
\* the order they have in the collection, and leaves the collection as it
\* was.
KindIndices(rule_list, rule_type) ==
  {i \in 1..Len(rule_list) : rule_list[i].rule_type = rule_type}

NthOf(indices, j) ==
  CHOOSE i \in indices : Cardinality({i2 \in indices : i2 <= i}) = j

C24_InsertionOrder ==
  /\ op.name = "add_rule"
       => /\ Len(rules) = Len(op.pre) + 1
          /\ \A i \in 1..Len(op.pre) : rules[i] = op.pre[i]
          /\ rules[Len(rules)] = op.arg
  /\ op.name = "get_rules_by_type"
       => LET indices == KindIndices(op.pre, op.arg)
          IN /\ rules = op.pre
             /\ Len(op.ret) = Cardinality(indices)
             /\ \A j \in 1..Len(op.ret) : op.ret[j] = op.pre[NthOf(indices, j)]

\* the collection was built by two add_rule calls and the filter returned
\* both rules
C24_Witness ==
  /\ op.name = "get_rules_by_type"
  /\ Len(op.ret) = 2
  /\ op.ret[1] # op.ret[2]

\* C25: the pivot conversions are deterministic.  When to_short_circuit_rules
\* or to_unrouted_net_rules is called again on an object whose labels and
\* values are the same, it returns the same rules in the same order as the
\* call before.
C25_Deterministic ==
  (/\ op.name \in {"to_short_circuit_rules", "to_unrouted_net_rules"}
   /\ op.arg # None)
    => op.ret = op.arg.v

\* C26: parsing replaces the collection.  After from_rul_content or
\* parse_rul_content, whatever it returned, no rule held before the call is
\* left: the rules held are rules of entries of this text, in the order of
\* the entries, and when the call returned False the collection is empty.
Increasing(f) == \A i, j \in DOMAIN f : i < j => f[i] < f[j]

C26_ParseReplaces ==
  (/\ op.name \in ParseOps
   /\ op.arg.name = "read")
    => LET es == op.arg.arg
       IN /\ \E f \in [1..Len(rules) -> 1..Len(es)] :
               /\ Increasing(f)
               /\ \A i \in 1..Len(rules) : es[f[i]].fields.name = <<rules[i].name>>
          /\ \A i \in 1..Len(rules) : \A j \in 1..Len(op.pre) : rules[i] # op.pre[j]
          /\ op.ret = FALSE => rules = <<>>

\* a text with a recognised entry was parsed into a collection that held a rule
C26_Witness ==
  /\ op.name \in ParseOps
  /\ op.arg.name = "read"
  /\ op.pre # <<>>
  /\ op.ret = TRUE
  /\ rules # <<>>
  /\ \A i \in 1..Len(rules) : rules[i] # op.pre[1]

\* C27: the stored frame and the extracted parts describe the same table.
\* A load_dataframe call that returns False changes none of pivot_df, unit,
\* row_index, column_index and values, and whenever the parts are set they
\* are the labels and values of the frame stored in pivot_df.
C27_FailedLoadKeeps ==
  /\ (op.name = "load_dataframe" /\ op.ret = FALSE) => pivot = op.pre
  /\ pivot.values # None
       => /\ pivot.column_index = List(Tail(pivot.pivot_df.columns))
          /\ pivot.row_index
               = List([i \in 1..Len(pivot.pivot_df.rows) |-> pivot.pivot_df.rows[i][1]])
          /\ pivot.values
               = Array([i \in 1..Len(pivot.pivot_df.rows) |-> Tail(pivot.pivot_df.rows[i])])

\* C28: the two parsers agree.  On the same text from_rul_content and
\* parse_rul_content return the same success flag and build the same
\* sequence of rules, field by field.
C28_ParsersAgree ==
  (/\ op.name \in ParseOps
   /\ op.arg.name = "read")
    => LET other == IF op.name = "from_rul_content" THEN parse_rul_content(op.arg.ret)
                    ELSE from_rul_content(op.arg.ret)
       IN /\ op.ret = other.ret
          /\ rules = other.rules

\* C29: rules generated from one matrix have pairwise distinct names: two
\* rules that to_clearance_rules made for different (row label, column
\* label) pairs never have the same name.
C29_DistinctNames ==
  op.name = "to_clearance_rules"
    => \A i, j \in 1..Len(op.ret) :
         (\/ op.ret[i].source_scope # op.ret[j].source_scope
          \/ op.ret[i].target_scope # op.ret[j].target_scope)
           => op.ret[i].name # op.ret[j].name

\* C30: from_clearance_rules on a non-empty list of rules that names fewer
\* than two distinct net classes returns an object, not None, whose load
\* failed: row_index, column_index and values are unset, and
\* to_clearance_rules on that object gives the empty list.
NamedNetClasses(rule_list) ==
  UNION {{scope.items[1] : scope \in {s \in {rule_list[i].source_scope,
                                                rule_list[i].target_scope} :
                                        s.scope_type = "NetClass" /\ s.items # <<>>}} :
         i \in 1..Len(rule_list)}

C30_TooFewNetClasses ==
  /\ (/\ op.name = "from_clearance_rules"
      /\ op.arg.ret # <<>>
      /\ Cardinality(NamedNetClasses(op.arg.ret)) < 2)
       => /\ op.ret # None
          /\ pivot = op.ret
          /\ op.ret.row_index = None
          /\ op.ret.column_index = None
          /\ op.ret.values = None
  /\ (/\ op.name = "to_clearance_rules"
      /\ op.pre.pivot_df # None
      /\ op.pre.row_index = None)
       => op.ret = <<>>

\* the rules handed over named the one net class A, and to_clearance_rules
\* was called on the object that came back
C30_Witness ==
  /\ op.name = "to_clearance_rules"
  /\ op.pre.pivot_df # None
  /\ op.pre.row_index = None
  /\ Len(op.pre.pivot_df.rows) = 1
  /\ op.pre.pivot_df.columns[1] = Str(<<"NetClass">>)

====
